---- MODULE Spec2Model ----
(***************************************************************************)
(* GitNotes synchronisation layer: services/sync_manager.go (SyncManager)  *)
(* driven through services/git_notes_service.go, over the GitService of    *)
(* git_service.go.                                                         *)
(*                                                                         *)
(* Every goroutine is a thread with a program counter.  A step is one      *)
(* mutex-protected section, one VCS call, or one channel operation.        *)
(* sync.Mutex is not reentrant: a thread that calls updateStatus while it  *)
(* holds sm.mu waits for itself.                                           *)
(***************************************************************************)
EXTENDS Integers, Sequences, FiniteSets, TLC

(* ------------------------------ bounds --------------------------------- *)
\* calls made on the SyncManager in one behaviour: TriggerManualSync calls
\* (by either caller) and calls of the api thread together
MaxCalls == 2
\* firings of the tickers in one behaviour
MaxTicks == 1
\* tracked files of the working copy that can carry conflict markers
NumFiles == 1
\* complete clean passes already recorded in the history (HistSpec)
HistCycles == 24
\* timer-loop goroutines alive at one time
MaxLoops == 3
\* ConnectRepository, StartAutomaticSync and StopAutomaticSync calls in one
\* behaviour
MaxFacade == 4
\* the longest error text classified, in words
MaxMsgLen == 3

(* --------------------------- program constants ------------------------- *)
maxHistorySize == 100

SyncStatusIdle      == "Idle"
SyncStatusChecking  == "Checking for changes"
SyncStatusStaging   == "Staging changes"
SyncStatusCommit    == "Committing changes"
SyncStatusPulling   == "Pulling from remote"
SyncStatusPushing   == "Pushing to remote"
SyncStatusSuccess   == "Sync completed successfully"
SyncStatusError     == "Sync error"
SyncStatusConflict  == "Conflict detected"
SyncStatusResolving == "Resolving conflicts"

SyncStatus ==
  { SyncStatusIdle, SyncStatusChecking, SyncStatusStaging, SyncStatusCommit,
    SyncStatusPulling, SyncStatusPushing, SyncStatusSuccess, SyncStatusError,
    SyncStatusConflict, SyncStatusResolving }

ConflictStrategyManual == "manual"
ConflictStrategyOurs   == "ours"
ConflictStrategyTheirs == "theirs"
ConflictStrategyBoth   == "both"

ConflictStrategy ==
  { ConflictStrategyManual, ConflictStrategyOurs, ConflictStrategyTheirs,
    ConflictStrategyBoth }

(* ------------------------------ threads -------------------------------- *)
\* the names of the goroutines StartAutomaticSync starts
\* (git_notes_service.go:241), in the order of their slots
LoopNames == <<"auto", "auto2", "auto3", "auto4">>
\* the loop goroutines that can be alive at one time: MaxLoops of them
Loops == {LoopNames[i] : i \in 1..MaxLoops}
\* the sources of TriggerManualSync: the UI call and the timer loops
Callers == {"manual"} \cup Loops
\* the goroutine that serves the other facade calls
ApiThread == "api"
Threads == Callers \cup {ApiThread}

Files == 1..NumFiles

\* the lists a conflict scan can return: files in any order, none twice
ConflictLists ==
  { s \in UNION { [1..n -> Files] : n \in 0..NumFiles } :
      \A i, j \in DOMAIN s : i # j => s[i] # s[j] }

\* the SyncManagers of one behaviour, as gns.syncManager points to them: 0 is
\* nil, and every successful ConnectRepository makes the next one
Managers == 0..(MaxFacade + 1)

VARIABLES
  currentStatus,     \* sm.currentStatus
  lastSyncTime,      \* sm.lastSyncTime; 0 is the zero time
  syncHistory,       \* sm.syncHistory
  conflictStrategy,  \* sm.conflictStrategy
  currentConflicts,  \* sm.currentConflicts; <<>> is nil
  mu,                \* sm.mu: "free" or the thread that holds it
  smCtx,             \* sm.ctx: the id of the current context
  cancelled,         \* the ids of the contexts whose cancel() has run
  replaced,          \* the managers gns.syncManager no longer points to
  clock,             \* time.Now() as updateStatus last read it
  pc,                \* the position of each thread (pass goroutine, api call)
  loc,               \* the locals of each thread, the receiver sm among them
  callSt,            \* TriggerManualSync callers: idle, called, waiting, recvd,
                     \* returned
  callCtx,           \* the sm.ctx a TriggerManualSync call derived its ctx from
  selCtx,            \* the sm.ctx whose Done() the select of the call waits on
  errChan,           \* errChan of each call: "empty" or the value sent
  callRes,           \* what the last TriggerManualSync call returned
  ops,               \* VCS operations invoked by each thread in its current call
  opRes,             \* what the last gitService call of each pass returned
  lastError,         \* gitService.lastError: "nil" or the Op of the GitError
  vcsErr,            \* the failure handed to classifyError: its op and error
  gitErr,            \* the *GitError classifyError returned for it
  histCopy,          \* the slice GetSyncHistory returned to its caller
  lstAtStart,        \* lastSyncTime when the caller's pass started
  triggers,          \* TriggerManualSync calls so far
  ticks,             \* those of them a ticker started
  apiCalls,          \* api calls so far
  apiOp,             \* the api call in progress or last returned
  apiArg,            \* its strategy argument, "none" if it takes none
  apiRet,            \* its result: "none" while running, "ok", "err"
  isConnected,       \* repoService.isConnected
  repoURL,           \* repoService.repoURL
  localRepoPath,     \* repoService.localRepoPath
  syncManager,       \* gns.syncManager: 0 is nil
  syncActive,        \* gns.syncActive
  stopSync,          \* gns.stopSync: the id of the channel
  closedChans,       \* the ids of the channels close() has run on
  panicked,          \* a close of a closed channel has panicked
  loopRunning,       \* the timer goroutines that have not returned
  loopChan,          \* the gns.stopSync each loop's select waits on
  loopInterval,      \* the ticker period of each loop, in seconds
  facadeCalls,       \* Connect/Start/Stop calls so far
  facadeOp,          \* the last of them to be made
  overlap,           \* one of them was made while another was running
  connPc,            \* the position of the ConnectRepository call in progress
  connArg,           \* its repoURL and localPath
  connRet,           \* its result: "none" while running, "ok", "err", "panic"
  connPre,           \* what the facade held when it was called
  startPc,           \* the position of the StartAutomaticSync call in progress
  startArg,          \* its intervalSeconds
  startRet,          \* its result: "none" while running, "ok"
  stopPc,            \* the position of the StopAutomaticSync call in progress
  stopRet            \* its result: "none" while running, "ok", "panic"

smVars   == <<currentStatus, lastSyncTime, syncHistory, clock>>
ctxVars  == <<smCtx, cancelled>>
callVars == <<callSt, callCtx, selCtx, errChan, callRes, lstAtStart, triggers,
              ticks>>
apiVars  == <<apiCalls, apiOp, apiArg, apiRet>>
repoVars == <<isConnected, repoURL, localRepoPath, syncManager>>
autoVars == <<syncActive, stopSync, closedChans, panicked, loopRunning,
              loopInterval>>
callLog  == <<facadeCalls, facadeOp, overlap>>
connVars == <<connPc, connArg, connRet, connPre>>
\* the StartAutomaticSync and the StopAutomaticSync call in progress
loopCalls == <<startPc, startArg, startRet, stopPc, stopRet>>
\* what a caller holds outside the manager
heldVars == <<vcsErr, gitErr, histCopy>>
facadeVars == <<repoVars, autoVars, loopChan, callLog, connVars, loopCalls>>
vars == <<currentStatus, lastSyncTime, syncHistory, conflictStrategy,
          currentConflicts, mu, smCtx, cancelled, replaced, clock, pc, loc,
          callSt, callCtx, selCtx, errChan, callRes, ops, opRes, lastError,
          lstAtStart,
          triggers, ticks, apiCalls,
          apiOp, apiArg, apiRet, isConnected, repoURL, localRepoPath, syncManager,
          syncActive, stopSync, closedChans, panicked, loopRunning, loopChan,
          loopInterval, facadeCalls, facadeOp, overlap, connPc, connArg, connRet,
          connPre, startPc, startArg, startRet, stopPc, stopRet, vcsErr, gitErr,
          histCopy>>

\* sm is the receiver of the call the thread is in; rsLeft counts the files
\* the loop of sync_manager.go:426 has still to add
NoLoc == [dcRet |-> "none", conflicts |-> <<>>, detectErr |-> FALSE,
          rsRet |-> "none", rsArg |-> "none", rsErr |-> FALSE, rsLeft |-> 0,
          sm |-> 0]

\* the locals of a call that starts now: its receiver is the manager
\* gns.syncManager points to
Locals == [NoLoc EXCEPT !.sm = syncManager]

\* the truncation keeps the front of the slice instead of its end
LastN_KeepOldest(s, n) == IF Len(s) > n THEN SubSeq(s, 1, n) ELSE s

\* sync_manager.go:115-117: s[len(s)-n:] when len(s) > n
LastN(s, n) == IF Len(s) > n THEN SubSeq(s, Len(s) - n + 1, Len(s)) ELSE s

Goto(t, l) == pc' = [pc EXCEPT ![t] = l]
Invoke(t, op) == ops' = [ops EXCEPT ![t] = Append(@, op)]
CtxErr(t) == callCtx[t] \in cancelled

\* the two tests every sync operation of the facade starts with
\* (git_notes_service.go:175-181 and the like)
Ready == isConnected /\ syncManager # 0

\* the stop channel of a loop that is not inside its select
NotInSelect == -1

\* git_notes_service.go:249-253: TriggerManualSync has returned to the timer
\* loop, which goes round to its select
ReturnToLoop(c) ==
  /\ loopChan' = IF c \in Loops THEN [loopChan EXCEPT ![c] = NotInSelect]
                 ELSE loopChan
  /\ UNCHANGED <<repoVars, autoVars, callLog, connVars, loopCalls, opRes, lastError,
                 heldVars>>

(* ------------------- the manager a call is running on ------------------ *)
\* A method of SyncManager runs on its receiver.  That is the manager
\* gns.syncManager points to, until ConnectRepository installs another
\* (git_notes_service.go:69); the call then goes on with the replaced one.
Cur(t) == loc[t].sm = syncManager

\* a context no call holds and nothing cancels
NoCtx == -1

\* what is kept of a replaced manager: what the calls still inside it read
NoManager == [mu |-> "free", strategy |-> ConflictStrategyManual,
              status |-> SyncStatusIdle, conflicts |-> <<>>, ctx |-> NoCtx]

\* the fields of the receiver of t's call
MuOf(t)        == IF Cur(t) THEN mu ELSE replaced[loc[t].sm].mu
StrategyOf(t)  == IF Cur(t) THEN conflictStrategy ELSE replaced[loc[t].sm].strategy
StatusOf(t)    == IF Cur(t) THEN currentStatus ELSE replaced[loc[t].sm].status
ConflictsOf(t) == IF Cur(t) THEN currentConflicts ELSE replaced[loc[t].sm].conflicts
CtxOf(t)       == IF Cur(t) THEN smCtx ELSE replaced[loc[t].sm].ctx

\* sm.mu.Lock() and sm.mu.Unlock() of the receiver
Lock(t) ==
  IF Cur(t)
  THEN /\ mu = "free"
       /\ mu' = t
       /\ UNCHANGED replaced
  ELSE /\ replaced[loc[t].sm].mu = "free"
       /\ replaced' = [replaced EXCEPT ![loc[t].sm].mu = t]
       /\ UNCHANGED mu

Unlock(t) ==
  IF Cur(t)
  THEN /\ mu' = "free"
       /\ UNCHANGED replaced
  ELSE /\ replaced' = [replaced EXCEPT ![loc[t].sm].mu = "free"]
       /\ UNCHANGED mu

(* --------------------------- updateStatus ------------------------------ *)
SyncHistoryEntry(ts, status, message, err, files) ==
  [timestamp |-> ts, status |-> status, message |-> message, error |-> err,
   conflictFiles |-> files]

\* the entry is written over the newest one instead of being appended
updateStatus_Rewrite(status, message, err) ==
  /\ mu = "free"
  /\ clock' = clock + 2
  /\ currentStatus' = status
  /\ \E now \in {clock + 1, clock + 2} :
       lastSyncTime' = IF status = SyncStatusSuccess THEN now ELSE lastSyncTime
  /\ LET entry == SyncHistoryEntry(clock', status, message, err,
                    IF status = SyncStatusConflict /\ currentConflicts # <<>>
                    THEN currentConflicts ELSE <<>>)
     IN syncHistory' = IF syncHistory = <<>> THEN <<entry>>
                       ELSE [syncHistory EXCEPT ![Len(syncHistory)] = entry]

\* sync_manager.go:85-118.  Lock, assign, append, truncate, unlock: one step,
\* enabled only while nobody holds sm.mu.  time.Now() is read twice: at 93
\* for lastSyncTime and at 98 for the Timestamp of the entry.  The clock has
\* moved on since the call before; between the two readings of one call it
\* has moved or it has not, so lastSyncTime is the Timestamp or earlier.
updateStatus(status, message, err) ==
  /\ mu = "free"
  /\ clock' = clock + 2
  /\ currentStatus' = status
  /\ \E now \in {clock + 1, clock + 2} :
       lastSyncTime' = IF status = SyncStatusSuccess THEN now ELSE lastSyncTime
  /\ LET entry == SyncHistoryEntry(clock', status, message, err,
                    IF status = SyncStatusConflict /\ currentConflicts # <<>>
                    THEN currentConflicts ELSE <<>>)
     IN syncHistory' = LastN(Append(syncHistory, entry), maxHistorySize)

\* sm.updateStatus(...) as thread t calls it: on the receiver of its call.
\* Of a replaced manager the status and the history are not kept; the call
\* still waits for that manager's mutex.
StatusWrite(t, status, message, err) ==
  IF Cur(t)
  THEN updateStatus(status, message, err)
  ELSE /\ replaced[loc[t].sm].mu = "free"
       /\ UNCHANGED smVars

(* --------------------------- the error taxonomy ------------------------ *)
\* An error is known by its text.  strings.Contains(s, substr): substr occurs
\* in s, byte for byte, at some offset.
Contains(s, substr) ==
  \E i \in 0..(Len(s) - Len(substr)) : SubSeq(s, i + 1, i + Len(substr)) = substr

\* SyncControls.tsx:223-227, errors.New(...)
ErrAuthenticationFailed == "git authentication failed"
ErrNetworkIssue         == "network error during git operation"
ErrMergeConflict        == "merge conflict detected"
ErrRemoteNotFound       == "remote repository not found"
ErrLocalChanges         == "local changes prevent operation"

\* the texts each test of classifyError looks for (308-310, 313-316, 319,
\* 322-323, 326-327)
AuthPatterns     == { "authentication required", "authentication failed", "401" }
NetworkPatterns  == { "connect:", "timeout", "tls", "network" }
ConflictPatterns == { "conflict" }
NotFoundPatterns == { "repository not found", "404" }
LocalPatterns    == { "local changes", "uncommitted changes" }

ContainsAny(errMsg, patterns) == \E p \in patterns : Contains(errMsg, p)

\* the nil error and the nil *GitError
NoError == "<nil>"
NilGitError == [Op |-> "", Err |-> NoError, Details |-> ""]

GitError(op, err, details) == [Op |-> op, Err |-> err, Details |-> details]

\* the conflict test comes first
GitErrorOf_ConflictFirst(op, err) ==
  IF err = NoError THEN NilGitError
  ELSE IF ContainsAny(err, ConflictPatterns)
  THEN GitError(op, ErrMergeConflict,
                "Merge conflict detected. Manual resolution required.")
  ELSE IF ContainsAny(err, AuthPatterns)
  THEN GitError(op, ErrAuthenticationFailed,
                "Authentication failed. Check your Personal Access Token.")
  ELSE IF ContainsAny(err, NetworkPatterns)
  THEN GitError(op, ErrNetworkIssue,
                "Network issue detected. Check your internet connection.")
  ELSE IF ContainsAny(err, NotFoundPatterns)
  THEN GitError(op, ErrRemoteNotFound,
                "Remote repository not found. Check the repository URL.")
  ELSE IF ContainsAny(err, LocalPatterns)
  THEN GitError(op, ErrLocalChanges,
                "Local changes prevent this operation. Commit or stash your changes first.")
  ELSE GitError(op, err, "")

\* SyncControls.tsx:300-339, the value classifyError returns: nil for nil;
\* otherwise the GitError with the op, and with the error and the hint of the
\* first test that finds its text, or with the error itself and no hint
GitErrorOf(op, err) ==
  IF err = NoError THEN NilGitError
  ELSE IF ContainsAny(err, AuthPatterns)
  THEN GitError(op, ErrAuthenticationFailed,
                "Authentication failed. Check your Personal Access Token.")
  ELSE IF ContainsAny(err, NetworkPatterns)
  THEN GitError(op, ErrNetworkIssue,
                "Network issue detected. Check your internet connection.")
  ELSE IF ContainsAny(err, ConflictPatterns)
  THEN GitError(op, ErrMergeConflict,
                "Merge conflict detected. Manual resolution required.")
  ELSE IF ContainsAny(err, NotFoundPatterns)
  THEN GitError(op, ErrRemoteNotFound,
                "Remote repository not found. Check the repository URL.")
  ELSE IF ContainsAny(err, LocalPatterns)
  THEN GitError(op, ErrLocalChanges,
                "Local changes prevent this operation. Commit or stash your changes first.")
  ELSE GitError(op, err, "")

\* the words of the error texts classified; some hold the text of a test
\* inside a longer word
Words == { "authentication", "unauthentication", "required", "failed",
           "timeout", "tls:", "conflicts", "repository", "not", "found", "4041",
           "local", "changes", "exit" }

\* strings.Join(w, " ")
RECURSIVE Join(_)
Join(w) ==
  IF Len(w) = 0 THEN ""
  ELSE IF Len(w) = 1 THEN w[1]
  ELSE w[1] \o " " \o Join(Tail(w))

\* the texts of up to MaxMsgLen words
ErrorTexts == { Join(w) : w \in UNION { [1..n -> Words] : n \in 0..MaxMsgLen } }

\* no failure is being classified and no history copy is held
NoneHeld ==
  /\ vcsErr = [op |-> "", err |-> NoError]
  /\ gitErr = NilGitError
  /\ histCopy = <<>>

(* ------------------------------- Init ---------------------------------- *)
\* a new manager whose strategy is ours
InitManager_Ours ==
  /\ conflictStrategy = ConflictStrategyOurs
  /\ currentConflicts = <<>>
  /\ mu = "free"
  /\ smCtx = 0
  /\ cancelled = {}
  /\ replaced = [m \in Managers |-> NoManager]
  /\ triggers = 0
  /\ ticks = 0
  /\ apiCalls = 0
  /\ apiOp = "none"
  /\ apiArg = "none"
  /\ apiRet = "none"
  /\ lastError = "nil"

\* NewSyncManager, sync_manager.go:69-82; no manager has been replaced
InitManager ==
  /\ conflictStrategy = ConflictStrategyManual
  /\ currentConflicts = <<>>
  /\ mu = "free"
  /\ smCtx = 0
  /\ cancelled = {}
  /\ replaced = [m \in Managers |-> NoManager]
  /\ triggers = 0
  /\ ticks = 0
  /\ apiCalls = 0
  /\ apiOp = "none"
  /\ apiArg = "none"
  /\ apiRet = "none"
  /\ lastError = "nil"

NoArg == [url |-> "", path |-> ""]

\* no ConnectRepository call is in progress and none has been made
NoConnect ==
  /\ connPc = "none"
  /\ connArg = NoArg
  /\ connRet = "none"
  /\ connPre = [repoURL |-> "", localRepoPath |-> "", isConnected |-> FALSE,
                syncManager |-> 0, syncActive |-> FALSE, calls |-> 0]

\* no StartAutomaticSync and no StopAutomaticSync call is in progress and
\* none has been made
NoLoopCall ==
  /\ startPc = "none"
  /\ startArg = 0
  /\ startRet = "none"
  /\ stopPc = "none"
  /\ stopRet = "none"

\* NewGitNotesService, git_notes_service.go:23-34, and NewRepositoryService,
\* repository_service.go:23-28
NewGitNotesService ==
  /\ isConnected = FALSE
  /\ repoURL = ""
  /\ localRepoPath = ""
  /\ syncManager = 0
  /\ syncActive = FALSE
  /\ stopSync = 0
  /\ closedChans = {}
  /\ panicked = FALSE
  /\ loopRunning = [l \in Loops |-> FALSE]
  /\ loopChan = [l \in Loops |-> NotInSelect]
  /\ loopInterval = [l \in Loops |-> 0]
  /\ facadeCalls = 0
  /\ facadeOp = "none"
  /\ overlap = FALSE
  /\ NoConnect
  /\ NoLoopCall

\* the facade after ConnectRepository("u", "p") has succeeded and
\* StartAutomaticSync(0) has started the first loop, which waits in its
\* select; calls are counted from here on
Started ==
  /\ isConnected = TRUE
  /\ repoURL = "u"
  /\ localRepoPath = "p"
  /\ syncManager = 1
  /\ syncActive = TRUE
  /\ stopSync = 1
  /\ closedChans = {}
  /\ panicked = FALSE
  /\ loopRunning = [l \in Loops |-> l = "auto"]
  /\ loopChan = [l \in Loops |-> IF l = "auto" THEN 1 ELSE NotInSelect]
  /\ loopInterval = [l \in Loops |-> IF l = "auto" THEN 300 ELSE 0]
  /\ facadeCalls = 0
  /\ facadeOp = "none"
  /\ overlap = FALSE
  /\ NoConnect
  /\ NoLoopCall

\* no call has been made on the manager
InitThreads ==
  /\ pc = [t \in Threads |-> "none"]
  /\ loc = [t \in Threads |-> NoLoc]
  /\ callSt = [c \in Callers |-> "idle"]
  /\ callCtx = [c \in Callers |-> 0]
  /\ selCtx = [c \in Callers |-> NoCtx]
  /\ errChan = [c \in Callers |-> "empty"]
  /\ callRes = [c \in Callers |-> "none"]
  /\ ops = [t \in Threads |-> <<>>]
  /\ opRes = [c \in Callers |-> "none"]
  /\ lstAtStart = [c \in Callers |-> 0]

Init ==
  /\ Started
  /\ InitManager
  /\ InitThreads
  /\ NoneHeld
  /\ currentStatus = SyncStatusIdle
  /\ lastSyncTime = 0
  /\ syncHistory = <<>>
  /\ clock = 0


(* ------------------------- TriggerManualSync --------------------------- *)
\* sync_manager.go:165-175: derive the pass context from sm.ctx, make errChan,
\* start the goroutine that runs performSync.  There is no check that another
\* pass is running.  The call has not come to its select yet.
TriggerManualSync(c) ==
  /\ UNCHANGED facadeVars
  /\ triggers + apiCalls < MaxCalls
  /\ callSt[c] \in {"idle", "returned"}
  /\ pc[c] \in {"none", "done"}
  /\ triggers' = triggers + 1
  /\ callSt' = [callSt EXCEPT ![c] = "called"]
  /\ callCtx' = [callCtx EXCEPT ![c] = smCtx]
  /\ selCtx' = [selCtx EXCEPT ![c] = NoCtx]
  /\ errChan' = [errChan EXCEPT ![c] = "empty"]
  /\ callRes' = [callRes EXCEPT ![c] = "none"]
  /\ lstAtStart' = [lstAtStart EXCEPT ![c] = lastSyncTime]
  /\ pc' = [pc EXCEPT ![c] = "start"]
  /\ ops' = [ops EXCEPT ![c] = <<>>]
  /\ opRes' = [opRes EXCEPT ![c] = "none"]
  /\ UNCHANGED <<lastError, heldVars>>
  /\ loc' = [loc EXCEPT ![c] = Locals]
  /\ UNCHANGED <<smVars, conflictStrategy, currentConflicts, mu, ctxVars, replaced,
                 apiVars>>

\* sync_manager.go:177-184: the call comes to its select.  The channel
\* operands are evaluated once, on entry: errChan, and the Done() of the
\* context sm.ctx holds at that moment, read without sm.mu.  That is the
\* context of line 167 unless CancelSync (304) or AbortSync (337) has stored a
\* new one since.
SelectEntry(c) ==
  /\ UNCHANGED <<facadeVars, opRes, lastError, heldVars>>
  /\ callSt[c] = "called"
  /\ callSt' = [callSt EXCEPT ![c] = "waiting"]
  /\ selCtx' = [selCtx EXCEPT ![c] = CtxOf(c)]
  /\ UNCHANGED <<smVars, conflictStrategy, currentConflicts, mu, ctxVars, replaced,
                 pc, loc, callCtx, errChan, callRes, ops, lstAtStart, triggers, ticks,
                 apiVars>>

\* sync_manager.go:178-179: the select takes the value performSync sent
SelectErrChan(c) ==
  /\ UNCHANGED <<facadeVars, opRes, lastError, heldVars>>
  /\ callSt[c] = "waiting"
  /\ errChan[c] # "empty"
  /\ callSt' = [callSt EXCEPT ![c] = "recvd"]
  /\ UNCHANGED <<smVars, conflictStrategy, currentConflicts, mu, ctxVars, replaced,
                 pc, loc, callCtx, selCtx, errChan, callRes, ops, lstAtStart, triggers,
                 ticks, apiVars>>

\* what "return "Sync cancelled", sm.ctx.Err()" can return (185).  sm.ctx is
\* read again, without sm.mu, while CancelSync (304) or AbortSync (337) stores
\* a new context in it: the read gives the cancelled context, whose Err() is
\* context.Canceled, or the new one, whose Err() is nil.  Until the new
\* context is stored only the cancelled one is there to read.
CtxDoneResults(c) ==
  IF CtxOf(c) \in cancelled THEN {"cancelled"} ELSE {"cancelled", "cancelledNil"}

\* sync_manager.go:184-185: the context the select waits on is cancelled
SelectCtxDone(c) ==
  /\ callSt[c] = "waiting"
  /\ selCtx[c] \in cancelled
  /\ ReturnToLoop(c)
  /\ callSt' = [callSt EXCEPT ![c] = "returned"]
  /\ \E r \in CtxDoneResults(c) : callRes' = [callRes EXCEPT ![c] = r]
  /\ UNCHANGED <<smVars, conflictStrategy, currentConflicts, mu, ctxVars, replaced,
                 pc, loc, callCtx, selCtx, errChan, ops, lstAtStart, triggers, ticks,
                 apiVars>>

\* sync_manager.go:121-150: GetSyncStatus takes sm.mu and returns the status
\* string.  Called at 180-183, after which TriggerManualSync returns the
\* error performSync sent, and by the facade for a polling reader
\* (git_notes_service.go:197).
GetSyncStatus(t) ==
  /\ IF t = ApiThread THEN pc[t] = "gsLock" ELSE callSt[t] = "recvd"
  /\ MuOf(t) = "free"
  /\ ReturnToLoop(t)
  /\ UNCHANGED <<smVars, conflictStrategy, currentConflicts, mu, ctxVars, replaced,
                 loc, callCtx, selCtx, errChan, ops, lstAtStart, triggers, ticks,
                 apiCalls, apiOp, apiArg>>
  /\ IF t = ApiThread
     THEN /\ Goto(t, "none")
          /\ apiRet' = "ok"
          /\ UNCHANGED <<callSt, callRes>>
     ELSE /\ callSt' = [callSt EXCEPT ![t] = "returned"]
          /\ callRes' = [callRes EXCEPT ![t] =
                           IF errChan[t] = "nil" THEN "ok" ELSE "err"]
          /\ UNCHANGED <<pc, apiRet>>

(* ----------------------------- performSync ----------------------------- *)
\* A step of a pass is one updateStatus call, which waits for sm.mu, one test
\* of ctx, or one gitService call with the branch on what it returned.  The
\* context can be cancelled between the test and the call.  A gitService call
\* touches nothing the other threads read.
\* the message of the updateStatus(SyncStatusError, ...) call that follows each
\* failure: 200, 214, 226, 270, 247, 261, 291
FailMessage ==
  [ check_changes    |-> "Failed to check for local changes",
    stage_changes    |-> "Failed to stage changes",
    commit_changes   |-> "Failed to commit changes",
    pull_changes     |-> "Failed to pull changes",
    detect_conflicts |-> "Failed to detect conflicts",
    resolve          |-> "Failed to auto-resolve conflicts",
    push_changes     |-> "Failed to push changes" ]

FailLabels == DOMAIN FailMessage

\* the updateStatus call that opens a phase (192, 206, 218, 232): its status,
\* its message, and the gitService call that comes after it
PhaseStatus ==
  [ start      |-> [status |-> SyncStatusChecking,
                    message |-> "Checking for local changes", next |-> "checkCtx"],
    updStaging |-> [status |-> SyncStatusStaging,
                    message |-> "Staging local changes", next |-> "stageCtx"],
    updCommit  |-> [status |-> SyncStatusCommit,
                    message |-> "Committing local changes", next |-> "commitCtx"],
    updPulling |-> [status |-> SyncStatusPulling,
                    message |-> "Pulling changes from remote", next |-> "pullCtx"] ]

\* the test of ctx that follows the updateStatus call of a phase (194, 208,
\* 220, 234, 285), and the gitService call that comes after it
CtxTest ==
  [ checkCtx  |-> "check",
    stageCtx  |-> "stage",
    commitCtx |-> "commit",
    pullCtx   |-> "pull",
    pushCtx   |-> "push" ]

PassLabels ==
  { "check", "stage", "commit", "pull", "afterDc1", "rsCall", "afterRs",
    "afterDc2", "push", "updSuccess" } \cup FailLabels \cup DOMAIN PhaseStatus
    \cup DOMAIN CtxTest

\* performSync returns e: the goroutine sends it on errChan and ends
Finish(t, e) ==
  /\ Goto(t, "done")
  /\ errChan' = [errChan EXCEPT ![t] = e]

\* updateStatus(status, ...) and on to the next phase
Move(t, status, message, next) ==
  /\ StatusWrite(t, status, message, "")
  /\ Goto(t, next)
  /\ UNCHANGED errChan

\* the gitService call has returned and the pass is at the updateStatus call
\* that follows it, which waits for sm.mu
GoOn(t, next) ==
  /\ Goto(t, next)
  /\ UNCHANGED <<smVars, errChan>>

\* an operation has failed with err: the pass is at the updateStatus call of
\* its error branch
Fail(t, err) == GoOn(t, err)

\* updateStatus(SyncStatusError, ...); return err
Failed(t) ==
  /\ StatusWrite(t, SyncStatusError, FailMessage[pc[t]], pc[t])
  /\ Finish(t, "err")
  /\ UNCHANGED <<ops, opRes, lastError, heldVars, loc>>

\* "if ctx.Err() != nil { return ctx.Err() }" before a gitService call
Cancelled(t) ==
  /\ Finish(t, "ctxErr")
  /\ UNCHANGED <<smVars, ops, opRes, lastError, heldVars, loc>>

\* 194, 208, 220, 234, 285: the test of ctx; the pass returns ctx.Err() or
\* goes on to the gitService call
TestCtx(t) ==
  IF CtxErr(t)
  THEN Cancelled(t)
  ELSE /\ GoOn(t, CtxTest[pc[t]])
       /\ UNCHANGED <<ops, opRes, lastError, heldVars, loc>>

\* the Op each GitService method hands to classifyError
\* (SyncControls.tsx:354, 373, 401, 453, 464, 482)
ClassifiedOp ==
  [ HasLocalChanges |-> "check_changes",
    StageChanges    |-> "stage_changes",
    CommitChanges   |-> "commit_changes",
    PullChanges     |-> "pull_changes",
    PushChanges     |-> "push_changes",
    DetectConflicts |-> "detect_conflicts" ]

\* the failure is returned to the caller and nothing is stored
classifyError_NoStore(op, failed) ==
  /\ lastError' = lastError
  /\ UNCHANGED heldVars

\* SyncControls.tsx:300-339: a GitService method that fails stores the
\* classified error in gs.lastError; one that succeeds does not touch it
classifyError(op, failed) ==
  /\ lastError' = IF failed THEN ClassifiedOp[op] ELSE lastError
  /\ UNCHANGED heldVars

\* SyncControls.tsx:342-347
GetErrorDetails ==
  IF lastError = "nil" THEN "No error information available" ELSE lastError

\* gitService.ResolveConflictsWithStrategy: like the other GitService methods
\* it hands its failure to classifyError, which stores it
GitResolveConflictsWithStrategy(failed) ==
  /\ lastError' = IF failed THEN "resolve_conflicts" ELSE lastError
  /\ UNCHANGED heldVars

\* a method of the GitService of t's manager (sync_manager.go:70,
\* git_notes_service.go:63-69: every manager has its own) has returned; the
\* lastError of a replaced manager's GitService is not kept
GitServiceCall(t, op, failed) ==
  IF Cur(t)
  THEN IF op = "ResolveConflictsWithStrategy"
       THEN GitResolveConflictsWithStrategy(failed)
       ELSE classifyError(op, failed)
  ELSE UNCHANGED <<lastError, heldVars>>

\* the gitService call of a phase: the operation and what it returned
Call(t, op, r) ==
  /\ Invoke(t, op)
  /\ opRes' = [opRes EXCEPT ![t] = r]
  /\ GitServiceCall(t, op, r \in {"err", "conflict"})

CallDetect(t, ret) ==
  /\ loc' = [loc EXCEPT ![t].dcRet = ret]
  /\ Goto(t, "dcLock")

\* a clean working copy is staged like a dirty one
CheckStep_AlwaysStage(t, r) ==
  /\ UNCHANGED loc
  /\ IF r = "err"
     THEN Fail(t, "check_changes")
     ELSE GoOn(t, "updStaging")

\* 198-206 and 232: HasLocalChanges has returned
CheckStep(t, r) ==
  /\ UNCHANGED loc
  /\ CASE r = "err" -> Fail(t, "check_changes")
       [] r = "dirty" -> GoOn(t, "updStaging")
       [] r = "clean" -> GoOn(t, "updPulling")

\* a failed stage is followed by the commit all the same
StageStep_Continue(t, r) ==
  /\ UNCHANGED loc
  /\ GoOn(t, "updCommit")

\* 212-218: StageChanges has returned
StageStep(t, r) ==
  /\ UNCHANGED loc
  /\ IF r = "ok"
     THEN GoOn(t, "updCommit")
     ELSE Fail(t, "stage_changes")

\* after the commit the pass stages again instead of pulling
CommitStep_Restage(t, r) ==
  /\ UNCHANGED loc
  /\ IF r = "ok"
     THEN GoOn(t, "updStaging")
     ELSE Fail(t, "commit_changes")

\* 224-232: CommitChanges has returned
CommitStep(t, r) ==
  /\ UNCHANGED loc
  /\ IF r = "ok"
     THEN GoOn(t, "updPulling")
     ELSE Fail(t, "commit_changes")

\* 239-245 and 268-276: a merge-conflict failure goes to DetectConflicts (245),
\* another failure to Error, success to the re-check (276)
PullStep(t, r) ==
  CASE r = "ok" -> CallDetect(t, "afterDc2") /\ UNCHANGED <<smVars, errChan>>
    [] r = "conflict" -> CallDetect(t, "afterDc1") /\ UNCHANGED <<smVars, errChan>>
    [] r = "err" -> Fail(t, "pull_changes") /\ UNCHANGED loc

\* 246-267, after DetectConflicts has returned (conflicts, detectErr)
AfterDetect(t) ==
  /\ UNCHANGED <<ops, opRes, lastError, heldVars>>
  /\ IF loc[t].detectErr
     THEN Fail(t, "detect_conflicts") /\ UNCHANGED loc
     ELSE IF Len(loc[t].conflicts) > 0
     THEN IF StrategyOf(t) = ConflictStrategyManual
          THEN Finish(t, "err") /\ UNCHANGED <<smVars, loc>>
          ELSE IF StrategyOf(t) \in {ConflictStrategyOurs, ConflictStrategyTheirs,
                                     ConflictStrategyBoth}
          THEN Goto(t, "rsCall") /\ UNCHANGED <<smVars, errChan, loc>>
          ELSE CallDetect(t, "afterDc2") /\ UNCHANGED <<smVars, errChan>>
     ELSE CallDetect(t, "afterDc2") /\ UNCHANGED <<smVars, errChan>>

\* 276-283: the scan's error is dropped; no conflicts, so on to the push
Recheck(t) ==
  /\ UNCHANGED <<ops, opRes, lastError, heldVars, loc>>
  /\ IF Len(loc[t].conflicts) > 0
     THEN Finish(t, "err") /\ UNCHANGED smVars
     ELSE Move(t, SyncStatusPushing, "Pushing local changes to remote", "pushCtx")

\* the pass returns nil after the push without recording the success
PushStep_NoSuccess(t, r) ==
  /\ UNCHANGED loc
  /\ IF r = "ok"
     THEN Finish(t, "nil") /\ UNCHANGED smVars
     ELSE Fail(t, "push_changes")

\* 289-293: PushChanges has returned
PushStep(t, r) ==
  /\ UNCHANGED loc
  /\ IF r = "ok"
     THEN GoOn(t, "updSuccess")
     ELSE Fail(t, "push_changes")

\* sync_manager.go:190-298
performSync(t) ==
  /\ UNCHANGED facadeVars
  /\ t \in Callers
  /\ pc[t] \in PassLabels
  /\ UNCHANGED <<conflictStrategy, currentConflicts, mu, ctxVars, replaced, callSt,
                 callCtx, selCtx, callRes, lstAtStart, triggers, ticks, apiVars>>
  /\ CASE pc[t] \in DOMAIN PhaseStatus ->
            /\ Move(t, PhaseStatus[pc[t]].status, PhaseStatus[pc[t]].message,
                    PhaseStatus[pc[t]].next)
            /\ UNCHANGED <<ops, opRes, lastError, heldVars, loc>>
       [] pc[t] \in DOMAIN CtxTest -> TestCtx(t)
       [] pc[t] = "check" ->
            \E r \in {"err", "dirty", "clean"} :
              Call(t, "HasLocalChanges", r) /\ CheckStep(t, r)
       [] pc[t] = "stage" ->
            \E r \in {"ok", "err"} :
              Call(t, "StageChanges", r) /\ StageStep(t, r)
       [] pc[t] = "commit" ->
            \E r \in {"ok", "err"} :
              Call(t, "CommitChanges", r) /\ CommitStep(t, r)
       [] pc[t] = "pull" ->
            \E r \in {"ok", "conflict", "err"} :
              Call(t, "PullChanges", r) /\ PullStep(t, r)
       [] pc[t] = "afterDc1" -> AfterDetect(t)
       [] pc[t] = "rsCall" ->
            \* 259: the argument is a second read of sm.conflictStrategy
            /\ loc' = [loc EXCEPT ![t].rsArg = StrategyOf(t),
                                  ![t].rsRet = "afterRs"]
            /\ Goto(t, "rsEntry")
            /\ UNCHANGED <<smVars, ops, opRes, lastError, heldVars, errChan>>
       [] pc[t] = "afterRs" ->
            \* 260-266
            /\ UNCHANGED <<ops, opRes, lastError, heldVars>>
            /\ IF loc[t].rsErr
               THEN /\ Fail(t, "resolve")
                    /\ UNCHANGED loc
               ELSE CallDetect(t, "afterDc2") /\ UNCHANGED <<smVars, errChan>>
       [] pc[t] = "afterDc2" -> Recheck(t)
       [] pc[t] \in FailLabels -> Failed(t)
       [] pc[t] = "push" ->
            \E r \in {"ok", "err"} :
              Call(t, "PushChanges", r) /\ PushStep(t, r)
       [] pc[t] = "updSuccess" ->
            \* 296-297
            /\ StatusWrite(t, SyncStatusSuccess,
                           "Synchronization completed successfully", "")
            /\ Finish(t, "nil")
            /\ UNCHANGED <<ops, opRes, lastError, heldVars, loc>>

(* --------------------------- DetectConflicts --------------------------- *)
DetectLabels == {"dcLock", "dcScan", "dcUpd"}

\* the return of a call made by a pass (to the label after the call) or by
\* the api thread (the call is over)
Return(t, label, failed) ==
  IF t = ApiThread
  THEN /\ Goto(t, "none")
       /\ apiRet' = IF failed THEN "err" ELSE "ok"
       /\ UNCHANGED <<apiCalls, apiOp, apiArg>>
  ELSE /\ Goto(t, label)
       /\ UNCHANGED apiVars

\* what gitService.DetectConflicts can return (git_service.go): an error, or
\* the list of files with conflict markers
ScanResults ==
  { [err |-> TRUE, files |-> <<>>] } \cup
  { [err |-> FALSE, files |-> l] : l \in ConflictLists }

\* sync_manager.go:309-327.  sm.mu is held from 310 to the return, across the
\* scan and across the updateStatus call of 321.
DetectConflicts(t) ==
  /\ UNCHANGED <<facadeVars, opRes>>
  /\ pc[t] \in DetectLabels
  /\ UNCHANGED <<conflictStrategy, ctxVars, callVars>>
  /\ CASE pc[t] = "dcLock" ->
            /\ Lock(t)
            /\ Goto(t, "dcScan")
            /\ UNCHANGED <<smVars, currentConflicts, loc, ops, apiVars, lastError,
                           heldVars>>
       [] pc[t] = "dcScan" ->
            \E r \in ScanResults :
              /\ Invoke(t, "DetectConflicts")
              /\ GitServiceCall(t, "DetectConflicts", r.err)
              /\ UNCHANGED smVars
              /\ IF r.err
                 THEN /\ loc' = [loc EXCEPT ![t].conflicts = <<>>,
                                            ![t].detectErr = TRUE]
                      /\ Unlock(t)
                      /\ Return(t, loc[t].dcRet, TRUE)
                      /\ UNCHANGED currentConflicts
                 ELSE /\ loc' = [loc EXCEPT ![t].conflicts = r.files,
                                            ![t].detectErr = FALSE]
                      \* 318: sm.currentConflicts of the receiver
                      /\ currentConflicts' = IF Cur(t) THEN r.files
                                             ELSE currentConflicts
                      /\ IF Len(r.files) > 0
                         THEN Goto(t, "dcUpd") /\ UNCHANGED <<mu, replaced, apiVars>>
                         ELSE Unlock(t) /\ Return(t, loc[t].dcRet, FALSE)
       [] pc[t] = "dcUpd" ->
            \* 321: updateStatus locks sm.mu, which this thread holds
            /\ StatusWrite(t, SyncStatusConflict, "Detected files with conflicts", "")
            /\ Unlock(t)
            /\ Return(t, loc[t].dcRet, FALSE)
            /\ UNCHANGED <<currentConflicts, loc, ops, lastError, heldVars>>
(* --------------------- ResolveConflictWithStrategy --------------------- *)
\* the updateStatus call that ends ResolveConflictWithStrategy, by the place
\* the call has come to: its status, its message and the error it records
\* (410, 421, 432, 440, 444, 451, 457, 461)
RsEnding ==
  [ rsListErr    |-> [status |-> SyncStatusError,
                      message |-> "Failed to list conflicted files",
                      err |-> "git diff"],
    rsNone       |-> [status |-> SyncStatusSuccess,
                      message |-> "No conflicts to resolve", err |-> ""],
    rsAddErr     |-> [status |-> SyncStatusError,
                      message |-> "Failed to stage conflicted file",
                      err |-> "git add"],
    rsMarkersErr |-> [status |-> SyncStatusError,
                      message |-> "Failed to commit conflict markers",
                      err |-> "commit_changes"],
    rsMarkersOk  |-> [status |-> SyncStatusSuccess,
                      message |->
                        "Conflicts resolved, both changes kept with conflict markers",
                      err |-> ""],
    rsResolveErr |-> [status |-> SyncStatusError,
                      message |-> "Failed to resolve conflicts using strategy",
                      err |-> "resolve"],
    rsCommitErr  |-> [status |-> SyncStatusError,
                      message |-> "Failed to commit resolved conflicts",
                      err |-> "commit_changes"],
    rsCommitOk   |-> [status |-> SyncStatusSuccess,
                      message |-> "Conflicts resolved using strategy", err |-> ""] ]

\* the places of a call inside ResolveConflictWithStrategy
ResolveLabels ==
  {"rsEntry", "rsBoth", "rsAdd", "rsMarkers", "rsOursTheirs", "rsCommit"}
    \cup DOMAIN RsEnding

\* updateStatus, then "return err" or "return nil"
RsEnd(t, status, message, err) ==
  /\ StatusWrite(t, status, message, err)
  /\ loc' = [loc EXCEPT ![t].rsErr = (status = SyncStatusError)]
  /\ Return(t, loc[t].rsRet, status = SyncStatusError)

\* a call of the resolution has returned and the thread is at `next`
RsGoOn(t, next) ==
  /\ Goto(t, next)
  /\ UNCHANGED <<smVars, apiVars>>

\* the files "git diff --name-only --diff-filter=U" can list
ListedFiles == 0..NumFiles

\* 404-446, one call a step: git diff (408), git add for each file it listed
\* (426-435), then the commit (438).  The two git commands are run with exec
\* and their errors do not go through classifyError; CommitChanges is the
\* GitService method.
ResolveBoth(t) ==
  CASE pc[t] = "rsBoth" ->
         /\ Invoke(t, "git diff")
         /\ UNCHANGED <<lastError, heldVars>>
         /\ \/ RsGoOn(t, "rsListErr") /\ UNCHANGED loc
            \/ \E n \in ListedFiles :
                 /\ loc' = [loc EXCEPT ![t].rsLeft = n]
                 /\ RsGoOn(t, IF n = 0 THEN "rsNone" ELSE "rsAdd")
    [] pc[t] = "rsAdd" ->
         /\ Invoke(t, "git add")
         /\ UNCHANGED <<lastError, heldVars>>
         /\ \/ RsGoOn(t, "rsAddErr") /\ UNCHANGED loc
            \/ /\ loc' = [loc EXCEPT ![t].rsLeft = @ - 1]
               /\ RsGoOn(t, IF loc[t].rsLeft > 1 THEN "rsAdd" ELSE "rsMarkers")
    [] pc[t] = "rsMarkers" ->
         \E failed \in BOOLEAN :
           /\ Invoke(t, "CommitChanges")
           /\ GitServiceCall(t, "CommitChanges", failed)
           /\ RsGoOn(t, IF failed THEN "rsMarkersErr" ELSE "rsMarkersOk")
           /\ UNCHANGED loc

\* 448-462, one call a step: gitService.ResolveConflictsWithStrategy (449),
\* then the commit (455)
ResolveOursTheirs(t) ==
  CASE pc[t] = "rsOursTheirs" ->
         \E failed \in BOOLEAN :
           /\ Invoke(t, "ResolveConflictsWithStrategy")
           /\ GitServiceCall(t, "ResolveConflictsWithStrategy", failed)
           /\ RsGoOn(t, IF failed THEN "rsResolveErr" ELSE "rsCommit")
           /\ UNCHANGED loc
    [] pc[t] = "rsCommit" ->
         \E failed \in BOOLEAN :
           /\ Invoke(t, "CommitChanges")
           /\ GitServiceCall(t, "CommitChanges", failed)
           /\ RsGoOn(t, IF failed THEN "rsCommitErr" ELSE "rsCommitOk")
           /\ UNCHANGED loc

\* sync_manager.go:394-463
ResolveConflictWithStrategy(t) ==
  /\ UNCHANGED <<facadeVars, opRes>>
  /\ pc[t] \in ResolveLabels
  /\ UNCHANGED <<conflictStrategy, currentConflicts, mu, ctxVars, replaced, callVars>>
  /\ CASE pc[t] = "rsEntry" ->
            \* 395-401
            /\ UNCHANGED <<ops, lastError, heldVars>>
            /\ IF loc[t].rsArg \notin {ConflictStrategyOurs, ConflictStrategyTheirs,
                                      ConflictStrategyBoth}
               THEN /\ loc' = [loc EXCEPT ![t].rsErr = TRUE]
                    /\ Return(t, loc[t].rsRet, TRUE)
                    /\ UNCHANGED smVars
               ELSE /\ StatusWrite(t, SyncStatusResolving,
                                   "Resolving conflicts with strategy", "")
                    /\ Goto(t, IF loc[t].rsArg = ConflictStrategyBoth
                               THEN "rsBoth" ELSE "rsOursTheirs")
                    /\ UNCHANGED <<loc, apiVars>>
       [] pc[t] \in {"rsBoth", "rsAdd", "rsMarkers"} -> ResolveBoth(t)
       [] pc[t] \in {"rsOursTheirs", "rsCommit"} -> ResolveOursTheirs(t)
       [] pc[t] \in DOMAIN RsEnding ->
            /\ RsEnd(t, RsEnding[pc[t]].status, RsEnding[pc[t]].message,
                     RsEnding[pc[t]].err)
            /\ UNCHANGED <<ops, lastError, heldVars>>

(* ------------------------- calls of the api thread --------------------- *)
ApiCall(op, arg) ==
  /\ Ready
  /\ pc[ApiThread] = "none"
  /\ triggers + apiCalls < MaxCalls
  /\ apiCalls' = apiCalls + 1
  /\ apiOp' = op
  /\ apiArg' = arg

\* git_notes_service.go:277-286: the facade calls SyncManager.DetectConflicts
FacadeDetectConflicts ==
  /\ UNCHANGED <<facadeVars, opRes, lastError, heldVars>>
  /\ ApiCall("DetectConflicts", "none")
  /\ apiRet' = "none"
  /\ ops' = [ops EXCEPT ![ApiThread] = <<>>]
  /\ loc' = [loc EXCEPT ![ApiThread] = Locals]
  /\ Goto(ApiThread, "dcLock")
  /\ UNCHANGED <<smVars, conflictStrategy, currentConflicts, mu, ctxVars, replaced,
                 callVars>>

\* git_notes_service.go:189-198: without a manager the answer is a constant
\* string; with one the call goes to SyncManager.GetSyncStatus
FacadeGetSyncStatus ==
  /\ pc[ApiThread] = "none"
  /\ triggers + apiCalls < MaxCalls
  /\ apiCalls' = apiCalls + 1
  /\ apiOp' = "GetSyncStatus"
  /\ apiArg' = "none"
  /\ IF syncManager = 0
     THEN apiRet' = "ok" /\ UNCHANGED <<pc, loc>>
     ELSE /\ apiRet' = "none"
          /\ loc' = [loc EXCEPT ![ApiThread] = Locals]
          /\ Goto(ApiThread, "gsLock")
  /\ UNCHANGED <<smVars, conflictStrategy, currentConflicts, mu, ctxVars, replaced,
                 callVars, ops, opRes, lastError, heldVars, facadeVars>>

\* the details report conflicts whatever currentConflicts holds
GetConflictDetails_AlwaysConflicts == [hasConflicts |-> TRUE]

\* sync_manager.go:374-391, the part of the map the callers branch on
GetConflictDetails == [hasConflicts |-> Len(currentConflicts) # 0]

\* git_notes_service.go:301-319 over sync_manager.go:374-391: one section
\* under sm.mu that reads currentConflicts
FacadeGetConflictDetails ==
  /\ ApiCall("GetConflictDetails", "none")
  /\ mu = "free"
  /\ apiRet' = IF GetConflictDetails.hasConflicts THEN "hasConflicts"
               ELSE "noConflicts"
  /\ UNCHANGED <<smVars, conflictStrategy, currentConflicts, mu, ctxVars, replaced,
                 pc, loc, callVars, ops, opRes, lastError, heldVars, facadeVars>>

StrategyNames == ConflictStrategy \cup {"bogus"}

\* the status is set to Resolving before the name is looked at
FacadeResolveConflictsWithStrategy_StatusFirst ==
  \E s \in StrategyNames :
    /\ ApiCall("ResolveConflictsWithStrategy", s)
    /\ UNCHANGED <<facadeVars, opRes, lastError, heldVars>>
    /\ ops' = [ops EXCEPT ![ApiThread] = <<>>]
    /\ updateStatus(SyncStatusResolving, "Resolving conflicts with strategy", "")
    /\ IF s \in {"ours", "theirs", "both"}
       THEN /\ loc' = [loc EXCEPT ![ApiThread] = [Locals EXCEPT !.rsArg = s]]
            /\ apiRet' = "none"
            /\ Goto(ApiThread, IF s = "both" THEN "rsBoth" ELSE "rsOursTheirs")
       ELSE /\ apiRet' = "err"
            /\ UNCHANGED <<loc, pc>>
    /\ UNCHANGED <<conflictStrategy, currentConflicts, mu, ctxVars, replaced, callVars>>

\* git_notes_service.go:368-393: "manual" and unknown names are refused by the
\* facade; the others go to SyncManager.ResolveConflictWithStrategy
FacadeResolveConflictsWithStrategy ==
  \E s \in StrategyNames :
    /\ ApiCall("ResolveConflictsWithStrategy", s)
    /\ UNCHANGED <<facadeVars, opRes, lastError, heldVars>>
    /\ ops' = [ops EXCEPT ![ApiThread] = <<>>]
    /\ IF s \in {"ours", "theirs", "both"}
       THEN /\ loc' = [loc EXCEPT ![ApiThread] = [Locals EXCEPT !.rsArg = s]]
            /\ apiRet' = "none"
            /\ Goto(ApiThread, "rsEntry")
       ELSE /\ apiRet' = "err"
            /\ UNCHANGED <<loc, pc>>
    /\ UNCHANGED <<smVars, conflictStrategy, currentConflicts, mu, ctxVars, replaced,
                   callVars>>

\* sync_manager.go:366-371
SetConflictStrategy(s) ==
  /\ mu = "free"
  /\ conflictStrategy' = s

\* every name is passed on to the manager
SetConflictResolutionStrategy_NoValidation ==
  \E s \in StrategyNames :
    /\ ApiCall("SetConflictResolutionStrategy", s)
    /\ SetConflictStrategy(s)
    /\ apiRet' = "ok"
    /\ UNCHANGED <<smVars, currentConflicts, mu, ctxVars, replaced, callVars, pc,
                   loc, ops, opRes, lastError, heldVars, facadeVars>>

\* git_notes_service.go:340-365: a name outside the four is refused, the
\* others go to SyncManager.SetConflictStrategy
SetConflictResolutionStrategy ==
  \E s \in StrategyNames :
    /\ ApiCall("SetConflictResolutionStrategy", s)
    /\ IF s \in {"manual", "ours", "theirs", "both"}
       THEN SetConflictStrategy(s) /\ apiRet' = "ok"
       ELSE apiRet' = "err" /\ UNCHANGED conflictStrategy
    /\ UNCHANGED <<smVars, currentConflicts, mu, ctxVars, replaced, callVars, pc,
                   loc, ops, opRes, lastError, heldVars, facadeVars>>

\* "sm.ctx, sm.cancel = context.WithCancel(context.Background())" (304, 337)
\* by thread t, on the receiver of its call, and sm.mu.Unlock() with it when
\* `unlock`
NewContext(t, unlock) ==
  IF Cur(t)
  THEN /\ smCtx' = smCtx + 1
       /\ mu' = IF unlock THEN "free" ELSE mu
       /\ UNCHANGED replaced
  ELSE /\ replaced' = [replaced EXCEPT ![loc[t].sm].ctx = NoCtx,
                                       ![loc[t].sm].mu =
                                          IF unlock THEN "free" ELSE @]
       /\ UNCHANGED <<smCtx, mu>>

\* sync_manager.go:330-363.  sm.mu is taken at 331 and sm.cancel() runs at
\* 335; the new context is stored at 337 and the status is tested at 340.
\* TriggerManualSync reads sm.ctx without sm.mu (167), so it can run between
\* 335 and 337.  355 and 361 call updateStatus with sm.mu still held.
AbortSync ==
  /\ UNCHANGED <<facadeVars, opRes, lastError, heldVars>>
  /\ UNCHANGED <<conflictStrategy, callVars, ops>>
  /\ CASE pc[ApiThread] = "none" ->
            /\ ApiCall("AbortSync", "none")
            /\ mu = "free"
            /\ mu' = ApiThread
            /\ cancelled' = cancelled \cup {smCtx}
            /\ apiRet' = "none"
            /\ loc' = [loc EXCEPT ![ApiThread] = Locals]
            /\ Goto(ApiThread, "abNew")
            /\ UNCHANGED <<smVars, currentConflicts, smCtx, replaced>>
       [] pc[ApiThread] = "abNew" ->
            LET rejected == /\ StatusOf(ApiThread) # SyncStatusConflict
                            /\ StatusOf(ApiThread) # SyncStatusError
            IN /\ NewContext(ApiThread, rejected)
               /\ UNCHANGED <<smVars, currentConflicts, cancelled, loc>>
               /\ IF rejected
                  THEN Return(ApiThread, "none", TRUE)
                  ELSE /\ Goto(ApiThread, IF Len(ConflictsOf(ApiThread)) > 0
                                          THEN "abUpdConflicts" ELSE "abUpdError")
                       /\ UNCHANGED apiVars
       [] pc[ApiThread] = "abUpdConflicts" ->
            /\ StatusWrite(ApiThread, SyncStatusIdle,
                           "Sync aborted and conflicts cleared", "")
            /\ currentConflicts' = IF Cur(ApiThread) THEN <<>> ELSE currentConflicts
            /\ Unlock(ApiThread)
            /\ Return(ApiThread, "none", FALSE)
            /\ UNCHANGED <<ctxVars, loc>>
       [] pc[ApiThread] = "abUpdError" ->
            /\ StatusWrite(ApiThread, SyncStatusIdle, "Sync operation aborted", "")
            /\ Unlock(ApiThread)
            /\ Return(ApiThread, "none", FALSE)
            /\ UNCHANGED <<ctxVars, currentConflicts, loc>>
       [] OTHER -> FALSE

\* sync_manager.go:301-306: sm.cancel() (302), the new context (304), both
\* without sm.mu, then updateStatus (305)
CancelSync ==
  /\ UNCHANGED <<facadeVars, opRes, lastError, heldVars>>
  /\ UNCHANGED <<conflictStrategy, currentConflicts, callVars, ops>>
  /\ CASE pc[ApiThread] = "none" ->
            /\ ApiCall("CancelSync", "none")
            /\ apiRet' = "none"
            /\ cancelled' = cancelled \cup {smCtx}
            /\ loc' = [loc EXCEPT ![ApiThread] = Locals]
            /\ Goto(ApiThread, "csNew")
            /\ UNCHANGED <<smVars, smCtx, mu, replaced>>
       [] pc[ApiThread] = "csNew" ->
            /\ NewContext(ApiThread, FALSE)
            /\ Goto(ApiThread, "csUpd")
            /\ UNCHANGED <<smVars, cancelled, apiVars, loc>>
       [] pc[ApiThread] = "csUpd" ->
            /\ StatusWrite(ApiThread, SyncStatusIdle, "Sync operation cancelled", "")
            /\ Return(ApiThread, "none", FALSE)
            /\ UNCHANGED <<ctxVars, mu, replaced, loc>>
       [] OTHER -> FALSE

(* ------------------------ the facade: automatic sync ------------------- *)
\* git_notes_service.go:174-186
FacadeTriggerManualSync ==
  /\ Ready
  /\ TriggerManualSync("manual")
  /\ UNCHANGED ticks

\* the seven sync operations of the facade
FacadeOps ==
  { "TriggerManualSync", "StartAutomaticSync", "DetectConflicts",
    "GetConflictDetails", "AbortSyncWithConflicts",
    "SetConflictResolutionStrategy", "ResolveConflictsWithStrategy" }

\* a refused call that has started a timer loop all the same
Refuse_StartsLoop(op) ==
  /\ ~Ready
  /\ triggers + apiCalls < MaxCalls
  /\ apiCalls' = apiCalls + 1
  /\ apiOp' = op
  /\ apiArg' = "none"
  /\ apiRet' = "err"
  /\ syncActive' = TRUE
  /\ UNCHANGED <<smVars, conflictStrategy, currentConflicts, mu, ctxVars, replaced,
                 pc, loc, callVars, ops, opRes, lastError, heldVars, repoVars,
                 stopSync, closedChans, panicked, loopRunning, loopInterval,
                 loopChan, callLog, connVars, loopCalls>>

\* the "not connected" / "sync manager not initialized" returns of the seven
\* operations: 175-181, 219-225, 278-284, 302-308, 323-329, 341-346, 369-375
Refuse(op) ==
  /\ ~Ready
  /\ triggers + apiCalls < MaxCalls
  /\ apiCalls' = apiCalls + 1
  /\ apiOp' = op
  /\ apiArg' = "none"
  /\ apiRet' = "err"
  /\ UNCHANGED <<smVars, conflictStrategy, currentConflicts, mu, ctxVars, replaced,
                 pc, loc, callVars, ops, opRes, lastError, heldVars, facadeVars>>

\* a call of ConnectRepository, StartAutomaticSync or StopAutomaticSync is
\* made.  The facade has no lock and every call runs in a goroutine of its
\* own, so a call can be made while others are running.
FacadeCall(op) ==
  /\ facadeCalls < MaxFacade
  /\ facadeCalls' = facadeCalls + 1
  /\ facadeOp' = op
  /\ overlap' = (overlap \/ connPc # "none" \/ startPc # "none" \/ stopPc # "none")

\* the interval arguments of StartAutomaticSync
Intervals == {0, 60}

\* a goroutine slot with no loop and no pass left in it
FreeLoop(l) ==
  /\ ~loopRunning[l]
  /\ callSt[l] \in {"idle", "returned"}
  /\ pc[l] \in {"none", "done"}

\* the goroutines StartAutomaticSync has started that have not ended, the
\* TriggerManualSync call of a loop that has ended included
LoopsAlive == Cardinality({l \in Loops : ~FreeLoop(l)})

\* the default is applied to every interval argument
DefaultInterval_Always(n) == 300

\* git_notes_service.go:232-235
DefaultInterval(n) == IF n <= 0 THEN 300 ELSE n

\* git_notes_service.go:218-261, one access to gns.syncActive or gns.stopSync
\* a step; nothing is locked.
\*   none:     the two tests (219-225), which succeed for good once they
\*             succeed, and the test of syncActive (228)
\*   saMake:   the new stop channel is stored (238)
\*   saActive: syncActive is set (239) and the goroutine is started with its
\*             ticker (241-258); it has not run yet: it reads gns.stopSync
\*             when it comes to its select
\* The code starts a goroutine on every call that finds syncActive false.
\* The goroutines alive at one time are capped at MaxLoops, a number the
\* MaxFacade calls of one behaviour cannot exceed: no call is held back.
StartAutomaticSync ==
  /\ UNCHANGED <<smVars, conflictStrategy, currentConflicts, mu, ctxVars, replaced,
                 pc, loc, callVars, ops, opRes, lastError, heldVars, apiVars,
                 repoVars, closedChans, panicked, connVars, stopPc, stopRet>>
  /\ CASE startPc = "none" ->
            \E n \in Intervals :
              /\ Ready
              /\ FacadeCall("StartAutomaticSync")
              /\ startArg' = n
              /\ IF syncActive
                 THEN /\ startPc' = "none"
                      /\ startRet' = "ok"
                 ELSE /\ LoopsAlive < MaxLoops
                      /\ startPc' = "saMake"
                      /\ startRet' = "none"
              /\ UNCHANGED <<syncActive, stopSync, loopRunning, loopChan,
                             loopInterval>>
       [] startPc = "saMake" ->
            /\ stopSync' = stopSync + 1
            /\ startPc' = "saActive"
            /\ UNCHANGED <<syncActive, loopRunning, loopChan, loopInterval,
                           callLog, startArg, startRet>>
       [] startPc = "saActive" ->
            \E i \in 1..MaxLoops :
             LET l == LoopNames[i] IN
              /\ FreeLoop(l)
              /\ \A j \in 1..(i - 1) : ~FreeLoop(LoopNames[j])
              /\ syncActive' = TRUE
              /\ loopRunning' = [loopRunning EXCEPT ![l] = TRUE]
              /\ loopChan' = [loopChan EXCEPT ![l] = NotInSelect]
              /\ loopInterval' = [loopInterval EXCEPT ![l] = DefaultInterval(startArg)]
              /\ startPc' = "none"
              /\ startRet' = "ok"
              /\ UNCHANGED <<stopSync, callLog, startArg>>

\* the channel is closed whether or not a loop is active
StopWanted_Always == TRUE

\* git_notes_service.go:265: "if gns.syncActive"
StopWanted == syncActive

\* git_notes_service.go:266: close(gns.stopSync).  The close of a closed
\* channel panics, and the call ends there.
CloseStopSync(done, panic) ==
  IF stopSync \in closedChans
  THEN /\ panicked' = TRUE
       /\ panic
       /\ UNCHANGED closedChans
  ELSE /\ closedChans' = closedChans \cup {stopSync}
       /\ done
       /\ UNCHANGED panicked

\* git_notes_service.go:264-269, one statement a step; nothing is locked.
\*   none:    the test of syncActive (265)
\*   stClose: the stop channel is closed (266)
\*   stClear: syncActive is cleared (267)
StopAutomaticSync ==
  /\ UNCHANGED <<smVars, conflictStrategy, currentConflicts, mu, ctxVars, replaced,
                 pc, loc, callVars, ops, opRes, lastError, heldVars, apiVars,
                 repoVars, stopSync, loopRunning, loopChan, loopInterval, connVars,
                 startPc, startArg, startRet>>
  /\ CASE stopPc = "none" ->
            /\ FacadeCall("StopAutomaticSync")
            /\ IF StopWanted
               THEN /\ stopPc' = "stClose"
                    /\ stopRet' = "none"
               ELSE /\ stopPc' = "none"
                    /\ stopRet' = "ok"
            /\ UNCHANGED <<syncActive, closedChans, panicked>>
       [] stopPc = "stClose" ->
            /\ CloseStopSync(stopPc' = "stClear" /\ stopRet' = "none",
                     stopPc' = "none" /\ stopRet' = "panic")
            /\ UNCHANGED <<syncActive, callLog>>
       [] stopPc = "stClear" ->
            /\ syncActive' = FALSE
            /\ stopPc' = "none"
            /\ stopRet' = "ok"
            /\ UNCHANGED <<closedChans, panicked, callLog>>

\* git_notes_service.go:245-246, 254: the loop comes to its select, which
\* reads gns.stopSync, and waits there
EnterSelect(l) ==
  /\ loopRunning[l]
  /\ callSt[l] \in {"idle", "returned"}
  /\ loopChan[l] = NotInSelect
  /\ loopChan' = [loopChan EXCEPT ![l] = stopSync]
  /\ UNCHANGED <<smVars, conflictStrategy, currentConflicts, mu, ctxVars, replaced,
                 pc, loc, callVars, ops, opRes, lastError, heldVars, apiVars,
                 repoVars, autoVars, callLog, connVars, loopCalls>>

\* git_notes_service.go:247-249: the ticker fires while the loop waits in its
\* select, and the loop calls TriggerManualSync
Tick(l) ==
  /\ loopRunning[l]
  /\ loopChan[l] # NotInSelect
  /\ ticks < MaxTicks
  /\ ticks' = ticks + 1
  /\ TriggerManualSync(l)

\* git_notes_service.go:254-255: the select sees its stop channel closed and
\* the goroutine returns
LoopExit(l) ==
  /\ loopRunning[l]
  /\ callSt[l] \in {"idle", "returned"}
  /\ loopChan[l] \in closedChans
  /\ loopRunning' = [loopRunning EXCEPT ![l] = FALSE]
  /\ UNCHANGED <<smVars, conflictStrategy, currentConflicts, mu, ctxVars, replaced,
                 pc, loc, callVars, ops, opRes, lastError, heldVars, apiVars,
                 repoVars, syncActive, stopSync, closedChans, panicked, loopChan,
                 loopInterval, callLog, connVars, loopCalls>>

(* ------------------------ the facade: ConnectRepository ---------------- *)
URLs == {"", "u", "v"}
Paths == {"", "p"}

\* a call is inside a SyncManager method: a pass goroutine or an api call that
\* has not returned, or a TriggerManualSync call that has not returned
Inside(t) ==
  \/ pc[t] \notin {"none", "done"}
  \/ t \in Callers /\ callSt[t] \in {"called", "waiting", "recvd"}

\* sync_manager.go:69-82: the fields of a new manager, with a new context.
\* git_notes_service.go:69 installs it and neither cancels nor waits for what
\* runs on the manager it replaces: the calls inside that one go on with it.
NewSyncManager ==
  /\ replaced' = IF \E t \in Threads : Inside(t) /\ Cur(t)
                 THEN [replaced EXCEPT ![syncManager] =
                         [mu |-> mu, strategy |-> conflictStrategy,
                          status |-> currentStatus,
                          conflicts |-> currentConflicts, ctx |-> smCtx]]
                 ELSE replaced
  /\ currentStatus' = SyncStatusIdle
  /\ lastSyncTime' = 0
  /\ syncHistory' = <<>>
  /\ conflictStrategy' = ConflictStrategyManual
  /\ currentConflicts' = <<>>
  /\ mu' = "free"
  /\ smCtx' = smCtx + 1
  /\ UNCHANGED <<cancelled, clock>>

\* the call has returned an error
ConnectFails ==
  /\ connPc' = "none"
  /\ connRet' = "err"

\* the call goes on to its next blocking call
ConnectGoesOn(next) ==
  /\ connPc' = next
  /\ connRet' = "none"

\* the loop is stopped or was not active: the settings are read
\* (git_notes_service.go:44-54) and the arguments are tested
\* (repository_service.go:36-41)
ConnectTests(arg) ==
  IF arg.url = "" \/ arg.path = ""
  THEN ConnectFails
  ELSE ConnectGoesOn("crCred")

\* git_notes_service.go:37-72 with repository_service.go:34-109, one access
\* to gns.syncActive or gns.stopSync, or one blocking call, a step; nothing is
\* locked, so the other calls of the facade and the goroutines run between
\* the steps.
\*   none:    the test of syncActive (39)
\*   crTest:  the call is in StopAutomaticSync: its test of syncActive (265)
\*   crClose: the stop channel is closed (266)
\*   crClear: syncActive is cleared (267)
\*   crCred:  StoreCredential has returned (44-49); the URL and the path are
\*            stored (52-53)
\*   crOpen:  the open or the clone has returned (56-65, 72-109)
\*   crGit:   NewGitService has returned (git_notes_service.go:63-66); the new
\*            manager is installed (69)
ConnectRepository ==
  /\ UNCHANGED <<pc, loc, callVars, ops, opRes, apiVars, heldVars, stopSync,
                 loopRunning, loopChan, loopInterval, loopCalls>>
  /\ CASE connPc = "none" ->
            \E url \in URLs, path \in Paths :
              /\ FacadeCall("ConnectRepository")
              /\ connArg' = [url |-> url, path |-> path]
              /\ connPre' = [repoURL |-> repoURL, localRepoPath |-> localRepoPath,
                             isConnected |-> isConnected,
                             syncManager |-> syncManager,
                             syncActive |-> syncActive, calls |-> facadeCalls']
              /\ IF syncActive
                 THEN ConnectGoesOn("crTest")
                 ELSE ConnectTests(connArg')
              /\ UNCHANGED <<repoVars, smVars, conflictStrategy, currentConflicts,
                             mu, ctxVars, replaced, lastError, syncActive,
                             closedChans, panicked>>
       [] connPc = "crTest" ->
            /\ IF StopWanted
               THEN ConnectGoesOn("crClose")
               ELSE ConnectTests(connArg)
            /\ UNCHANGED <<repoVars, smVars, conflictStrategy, currentConflicts,
                           mu, ctxVars, replaced, lastError, syncActive,
                           closedChans, panicked, callLog, connArg, connPre>>
       [] connPc = "crClose" ->
            /\ CloseStopSync(ConnectGoesOn("crClear"),
                     connPc' = "none" /\ connRet' = "panic")
            /\ UNCHANGED <<repoVars, smVars, conflictStrategy, currentConflicts,
                           mu, ctxVars, replaced, lastError, syncActive, callLog,
                           connArg, connPre>>
       [] connPc = "crClear" ->
            /\ syncActive' = FALSE
            /\ ConnectTests(connArg)
            /\ UNCHANGED <<repoVars, smVars, conflictStrategy, currentConflicts,
                           mu, ctxVars, replaced, lastError, closedChans, panicked,
                           callLog, connArg, connPre>>
       [] connPc = "crCred" ->
            /\ \/ ConnectFails /\ UNCHANGED <<repoURL, localRepoPath>>
               \/ /\ ConnectGoesOn("crOpen")
                  /\ repoURL' = connArg.url
                  /\ localRepoPath' = connArg.path
            /\ UNCHANGED <<isConnected, syncManager, smVars, conflictStrategy,
                           currentConflicts, mu, ctxVars, replaced, lastError,
                           syncActive, closedChans, panicked, callLog, connArg,
                           connPre>>
       [] connPc = "crOpen" ->
            /\ \/ ConnectFails /\ UNCHANGED isConnected
               \/ /\ ConnectGoesOn("crGit")
                  /\ isConnected' = TRUE
            /\ UNCHANGED <<repoURL, localRepoPath, syncManager, smVars,
                           conflictStrategy, currentConflicts, mu, ctxVars,
                           replaced, lastError, syncActive, closedChans, panicked,
                           callLog, connArg, connPre>>
       [] connPc = "crGit" ->
            /\ \/ /\ ConnectFails
                  /\ UNCHANGED <<syncManager, smVars, conflictStrategy,
                                 currentConflicts, mu, ctxVars, replaced, lastError>>
               \/ /\ connPc' = "none"
                  /\ connRet' = "ok"
                  /\ syncManager' = syncManager + 1
                  /\ NewSyncManager
                  /\ lastError' = "nil"
            /\ UNCHANGED <<isConnected, repoURL, localRepoPath, syncActive,
                           closedChans, panicked, callLog, connArg, connPre>>

(* ------------------------------- Next ---------------------------------- *)
\* The two sources of passes on one manager, the UI call and the ticker of
\* the running loop, with CancelSync calls.  The other calls made on the
\* manager are in FairNext, next to one source of passes.
Next ==
  \/ FacadeTriggerManualSync
  \/ \E l \in Loops : Tick(l)
  \/ \E l \in Loops : EnterSelect(l)
  \/ \E c \in Callers : SelectEntry(c)
  \/ \E c \in Callers : SelectErrChan(c)
  \/ \E c \in Callers : SelectCtxDone(c)
  \/ \E c \in Callers : GetSyncStatus(c)
  \/ \E c \in Callers : performSync(c)
  \/ \E c \in Callers : DetectConflicts(c)
  \/ CancelSync

Spec == Init /\ [][Next]_vars

(* --------------------- the manager after many passes ------------------- *)
\* The entries one clean pass appends (192, 232, 283, 296), as the k-th pass
CleanPassEntries(k) ==
  << SyncHistoryEntry(8 * k - 6, SyncStatusChecking, "Checking for local changes",
                      "", <<>>),
     SyncHistoryEntry(8 * k - 4, SyncStatusPulling, "Pulling changes from remote",
                      "", <<>>),
     SyncHistoryEntry(8 * k - 2, SyncStatusPushing,
                      "Pushing local changes to remote", "", <<>>),
     SyncHistoryEntry(8 * k, SyncStatusSuccess,
                      "Synchronization completed successfully", "", <<>>) >>

RECURSIVE CleanPasses(_)
CleanPasses(k) == IF k = 0 THEN <<>> ELSE CleanPasses(k - 1) \o CleanPassEntries(k)

\* The state HistCycles clean passes of the manual caller leave behind; calls
\* are counted from here on.
HistInit ==
  /\ Started
  /\ InitManager
  /\ NoneHeld
  /\ clock = 8 * HistCycles
  /\ syncHistory = LastN(CleanPasses(HistCycles), maxHistorySize)
  /\ lastSyncTime \in {t \in {8 * HistCycles - 1, 8 * HistCycles} : t >= 0}
  /\ callCtx = [c \in Callers |-> 0]
  /\ selCtx = [c \in Callers |->
                 IF c = "manual" /\ HistCycles > 0 THEN 0 ELSE NoCtx]
  /\ IF HistCycles = 0
     THEN /\ currentStatus = SyncStatusIdle
          /\ InitThreads
     ELSE /\ currentStatus = SyncStatusSuccess
          /\ pc = [t \in Threads |-> IF t = "manual" THEN "done" ELSE "none"]
          /\ loc = [t \in Threads |->
                      IF t = "manual" THEN [NoLoc EXCEPT !.dcRet = "afterDc2", !.sm = 1]
                      ELSE NoLoc]
          /\ callSt = [c \in Callers |-> IF c = "manual" THEN "returned" ELSE "idle"]
          /\ errChan = [c \in Callers |-> IF c = "manual" THEN "nil" ELSE "empty"]
          /\ callRes = [c \in Callers |-> IF c = "manual" THEN "ok" ELSE "none"]
          /\ ops = [t \in Threads |->
                      IF t = "manual"
                      THEN << "HasLocalChanges", "PullChanges", "DetectConflicts",
                              "PushChanges" >>
                      ELSE <<>>]
          /\ opRes = [c \in Callers |-> IF c = "manual" THEN "ok" ELSE "none"]
          /\ lstAtStart = [c \in Callers |->
                             IF c = "manual" THEN 8 * (HistCycles - 1) ELSE 0]

(* ------------------------------ fairness ------------------------------- *)
\* One TriggerManualSync caller and the api thread.  Every goroutine that can
\* run is scheduled; nobody is obliged to make a call.
FairCallers == {"manual"}

FairNext ==
  \/ FacadeTriggerManualSync
  \/ \E c \in FairCallers : SelectEntry(c)
  \/ \E c \in FairCallers : SelectErrChan(c)
  \/ \E c \in FairCallers : SelectCtxDone(c)
  \/ \E t \in FairCallers \cup {ApiThread} : GetSyncStatus(t)
  \/ \E t \in FairCallers : performSync(t)
  \/ \E t \in Threads : DetectConflicts(t)
  \/ \E t \in Threads : ResolveConflictWithStrategy(t)
  \/ FacadeDetectConflicts
  \/ FacadeResolveConflictsWithStrategy
  \/ SetConflictResolutionStrategy
  \/ FacadeGetSyncStatus
  \/ FacadeGetConflictDetails
  \/ AbortSync
  \/ CancelSync

Fairness ==
  /\ \A c \in FairCallers : WF_vars(SelectEntry(c))
  /\ \A c \in FairCallers : WF_vars(SelectErrChan(c) \/ SelectCtxDone(c))
  /\ \A t \in FairCallers \cup {ApiThread} : WF_vars(GetSyncStatus(t))
  /\ \A t \in FairCallers : WF_vars(performSync(t))
  /\ \A t \in Threads : WF_vars(DetectConflicts(t))
  /\ \A t \in Threads : WF_vars(ResolveConflictWithStrategy(t))
  /\ WF_vars(pc[ApiThread] # "none" /\ AbortSync)
  /\ WF_vars(pc[ApiThread] # "none" /\ CancelSync)

FairSpec == Init /\ [][FairNext]_vars /\ Fairness

\* the same threads with no fairness assumed
OneSpec == Init /\ [][FairNext]_vars

\* sync_manager.go:153-162: under sm.mu, a new slice with a copy of every
\* entry
GetSyncHistory ==
  /\ ApiCall("GetSyncHistory", "none")
  /\ mu = "free"
  /\ apiRet' = "ok"
  /\ histCopy' = [i \in 1..Len(syncHistory) |-> syncHistory[i]]
  /\ UNCHANGED <<smVars, conflictStrategy, currentConflicts, mu, ctxVars, replaced, pc, loc,
                 callVars, ops, opRes, lastError, vcsErr, gitErr, facadeVars>>

\* The caller writes into the slice it was given, at its first or its last
\* entry.  copy() at sync_manager.go:159 copied the entry structs, so a write
\* to a field stays in the caller's slice.  It copied the ConflictFiles slice
\* header of an entry, not the array behind it (made at 106-107), so a write
\* to an element of a ConflictFiles that has elements is a write to the array
\* of the stored entry.
MutateCopy ==
  /\ histCopy # <<>>
  /\ \E i \in {1, Len(histCopy)} :
       \/ /\ histCopy[i].message # "edited"
          /\ histCopy' = [histCopy EXCEPT ![i].message = "edited"]
          /\ UNCHANGED syncHistory
       \/ /\ histCopy[i].conflictFiles # <<>>
          /\ histCopy[i].conflictFiles[1] # 0
          /\ histCopy' = [histCopy EXCEPT ![i].conflictFiles[1] = 0]
          /\ syncHistory' =
               [j \in 1..Len(syncHistory) |->
                  IF syncHistory[j].timestamp = histCopy[i].timestamp
                  THEN [syncHistory[j] EXCEPT !.conflictFiles[1] = 0]
                  ELSE syncHistory[j]]
  /\ UNCHANGED <<currentStatus, lastSyncTime, clock, conflictStrategy,
                 currentConflicts, mu, ctxVars, replaced, pc, loc, callVars, ops, opRes,
                 lastError, vcsErr, gitErr, apiVars, facadeVars>>

\* one caller running passes, CancelSync calls, and a reader of the history,
\* on the manager that has HistCycles clean passes behind it
HistNext ==
  \/ FacadeTriggerManualSync
  \/ \E c \in FairCallers : SelectEntry(c)
  \/ \E c \in FairCallers : SelectErrChan(c)
  \/ \E c \in FairCallers : SelectCtxDone(c)
  \/ \E c \in FairCallers : GetSyncStatus(c)
  \/ \E t \in FairCallers : performSync(t)
  \/ \E t \in FairCallers : DetectConflicts(t)
  \/ CancelSync
  \/ GetSyncHistory
  \/ MutateCopy

HistSpec == HistInit /\ [][HistNext]_vars

(* ---------------------- the automatic-sync loops ----------------------- *)
\* The timer loops, StartAutomaticSync and StopAutomaticSync calls, and
\* AbortSync calls, on the connected service with its first loop running
AutoNext ==
  \/ \E l \in Loops : Tick(l)
  \/ \E l \in Loops : EnterSelect(l)
  \/ \E l \in Loops : SelectEntry(l)
  \/ \E l \in Loops : SelectErrChan(l)
  \/ \E l \in Loops : SelectCtxDone(l)
  \/ \E l \in Loops : GetSyncStatus(l)
  \/ \E l \in Loops : performSync(l)
  \/ \E l \in Loops : DetectConflicts(l)
  \/ \E l \in Loops : LoopExit(l)
  \/ StartAutomaticSync
  \/ StopAutomaticSync
  \/ AbortSync

AutoSpec == Init /\ [][AutoNext]_vars

\* every goroutine that can run is scheduled; the ticker and the callers of
\* the facade are not obliged to act
AutoFairness ==
  /\ \A l \in Loops : WF_vars(SelectEntry(l))
  /\ \A l \in Loops : WF_vars(SelectErrChan(l) \/ SelectCtxDone(l))
  /\ \A l \in Loops : WF_vars(GetSyncStatus(l))
  /\ \A l \in Loops : WF_vars(performSync(l))
  /\ \A l \in Loops : WF_vars(DetectConflicts(l))
  /\ \A l \in Loops : WF_vars(EnterSelect(l))
  /\ WF_vars(pc[ApiThread] # "none" /\ AbortSync)

AutoFairSpec == Init /\ [][AutoNext]_vars /\ AutoFairness

(* ------------------------ the service from its start ------------------- *)
FacadeInit ==
  /\ NewGitNotesService
  /\ InitManager
  /\ InitThreads
  /\ NoneHeld
  /\ currentStatus = SyncStatusIdle
  /\ lastSyncTime = 0
  /\ syncHistory = <<>>
  /\ clock = 0

\* the calls that make and unmake the connection and the loops, and the
\* calls refused before the service is ready; no ticker fires
LifecycleNext ==
  \/ ConnectRepository
  \/ \E op \in FacadeOps : Refuse(op)
  \/ StartAutomaticSync
  \/ StopAutomaticSync
  \/ \E l \in Loops : EnterSelect(l)
  \/ \E l \in Loops : LoopExit(l)

LifecycleSpec == FacadeInit /\ [][LifecycleNext]_vars

\* the ConnectRepository calls on the repository "u" at "p" of which no step
\* fails
Reconnect ==
  /\ ConnectRepository
  /\ connArg'.url = "u"
  /\ connArg'.path = "p"
  /\ connRet' # "err"

\* one caller running passes, and ConnectRepository calls that replace the
\* manager under them
ReconnectNext ==
  \/ FacadeTriggerManualSync
  \/ \E c \in FairCallers : SelectEntry(c)
  \/ \E c \in FairCallers : SelectErrChan(c)
  \/ \E c \in FairCallers : GetSyncStatus(c)
  \/ \E t \in FairCallers : performSync(t)
  \/ \E t \in FairCallers : DetectConflicts(t)
  \/ Reconnect

ReconnectSpec == Init /\ [][ReconnectNext]_vars

\* a GitService method has failed, in one of the ways of ErrorTexts, or has
\* returned nil, and hands what it got to classifyError
ClassifyInit ==
  /\ Started
  /\ InitManager
  /\ InitThreads
  /\ currentStatus = SyncStatusIdle
  /\ lastSyncTime = 0
  /\ syncHistory = <<>>
  /\ clock = 0
  /\ \E op \in {ClassifiedOp[m] : m \in DOMAIN ClassifiedOp} :
       \E err \in ErrorTexts \cup {NoError} :
         vcsErr = [op |-> op, err |-> err]
  /\ gitErr = NilGitError
  /\ histCopy = <<>>

\* SyncControls.tsx:300-339: classifyError builds the GitError, stores it in
\* gs.lastError and returns it; for nil it returns nil and stores nothing
ClassifyStep ==
  /\ gitErr = NilGitError
  /\ gitErr' = GitErrorOf(vcsErr.op, vcsErr.err)
  /\ lastError' = IF vcsErr.err = NoError THEN lastError ELSE vcsErr.op
  /\ UNCHANGED <<smVars, conflictStrategy, currentConflicts, mu, ctxVars, replaced, pc, loc,
                 callVars, ops, opRes, vcsErr, histCopy, apiVars, facadeVars>>

ClassifySpec == ClassifyInit /\ [][ClassifyStep]_vars

(* ------------------------------ claims --------------------------------- *)
InFlight(c) == pc[c] \notin {"none", "done"}

\* C1: at most one performSync pass is executing at any instant, whatever the
\* interleaving of TriggerManualSync calls.
C1_AtMostOnePass ==
  Cardinality({c \in Callers : InFlight(c)}) <= 1

\* C2: currentConflicts is non-empty if and only if currentStatus is Conflict.
C2_ConflictsIffConflictStatus ==
  (currentConflicts # <<>>) <=> (currentStatus = SyncStatusConflict)

\* C3: a pass that ends with an error (Error or Conflict) leaves lastSyncTime
\* at the value it had when the pass started; a pass that ends in Success has
\* updated it.
C3_LastSyncOnlyOnSuccess ==
  [][\A c \in Callers :
       (pc[c] # "done" /\ pc'[c] = "done") =>
         IF errChan'[c] = "nil"
         THEN lastSyncTime' # lstAtStart[c]
         ELSE lastSyncTime' = lstAtStart[c]]_vars

Min(a, b) == IF a < b THEN a ELSE b

\* C4: the history never holds more than maxHistorySize entries, and it is
\* always the most recent entries in append order: the entry appended by the
\* n-th updateStatus call carries the timestamp 2n, and the history holds
\* exactly the timestamps of the last Len calls, oldest first.
C4_HistoryBoundedFifo ==
  /\ Len(syncHistory) <= maxHistorySize
  /\ Len(syncHistory) = Min(clock \div 2, maxHistorySize)
  /\ \A i \in 1..Len(syncHistory) :
       syncHistory[i].timestamp = clock - 2 * (Len(syncHistory) - i)

\* C4 witness: an append has overflowed the capacity and the oldest entries
\* are gone
C4_Witness ==
  /\ clock > 2 * (maxHistorySize + 1)
  /\ Len(syncHistory) = maxHistorySize
  /\ syncHistory[1].timestamp > 4

\* the place of a VCS operation in the order of a pass; the conflict scan and
\* the resolution come between the pull and the push
Rank(op) ==
  CASE op = "HasLocalChanges" -> 1
    [] op = "StageChanges" -> 2
    [] op = "CommitChanges" -> 3
    [] op = "PullChanges" -> 4
    [] op = "PushChanges" -> 6
    [] OTHER -> 5

\* C5: within one pass the VCS operations occur in the order status check,
\* stage, commit, pull, push, and none of the five is invoked twice.
C5_PhaseOrder ==
  \A c \in Callers :
    \A i, j \in 1..Len(ops[c]) :
      i < j => /\ Rank(ops[c][i]) <= Rank(ops[c][j])
               /\ Rank(ops[c][i]) = Rank(ops[c][j]) => Rank(ops[c][i]) = 5

\* C5 witness: a pass has gone through all five phases
C5_Witness ==
  \E c \in Callers :
    /\ pc[c] = "done"
    /\ ops[c] = << "HasLocalChanges", "StageChanges", "CommitChanges",
                   "PullChanges", "DetectConflicts", "PushChanges" >>
\* the scan of a DetectConflicts call made by pass c from `site` has found
\* conflicted files
FoundConflicts(c, site) ==
  /\ pc[c] = "dcUpd"
  /\ loc[c].dcRet = site
  /\ Len(loc[c].conflicts) > 0

\* C6: when the pull fails with a merge conflict, the scan finds conflicted
\* files and the strategy is manual, the pass stops: TriggerManualSync returns
\* an error, currentStatus is Conflict, currentConflicts is the scanned list,
\* and PushChanges has not been invoked.
C6_ManualConflictStops ==
  \A c \in FairCallers :
    (FoundConflicts(c, "afterDc1") /\ conflictStrategy = ConflictStrategyManual)
      ~> ( /\ pc[c] = "done"
           /\ errChan[c] = "err"
           /\ currentStatus = SyncStatusConflict
           /\ currentConflicts = loc[c].conflicts
           /\ \A i \in 1..Len(ops[c]) : ops[c][i] # "PushChanges" )

\* C7: when the pull fails with a merge conflict, conflicted files are found
\* and the strategy is ours, theirs or both, the pass resolves, commits,
\* pushes and ends in Success with currentConflicts empty, unless one of its
\* VCS operations fails or it is cancelled.
C7_AutoResolveSucceeds ==
  \A c \in FairCallers :
    (FoundConflicts(c, "afterDc1") /\ conflictStrategy # ConflictStrategyManual)
      ~> \/ /\ pc[c] = "done"
            /\ errChan[c] = "nil"
            /\ currentStatus = SyncStatusSuccess
            /\ currentConflicts = <<>>
         \/ pc[c] = "done" /\ errChan[c] # "nil"

\* C8: AbortSync called while currentStatus is Conflict or Error returns
\* success, and on return currentStatus is Idle, currentConflicts is empty and
\* the context that was current before the call is cancelled.
C8_AbortReturnsIdle ==
  (apiOp = "AbortSync" /\ pc[ApiThread] \in {"abUpdConflicts", "abUpdError"})
    ~> ( /\ apiOp = "AbortSync"
         /\ pc[ApiThread] = "none"
         /\ apiRet = "ok"
         /\ currentStatus = SyncStatusIdle
         /\ currentConflicts = <<>>
         /\ smCtx - 1 \in cancelled )

\* C9: AbortSync called while currentStatus is neither Conflict nor Error
\* returns an error and changes nothing: status, history, conflicts, strategy
\* and the cancellation handle are as before.
C9_AbortRejectedIsNoOp ==
  [][( /\ apiOp = "AbortSync"
       /\ pc[ApiThread] = "abNew"
       /\ pc'[ApiThread] # "abNew"
       /\ currentStatus \notin {SyncStatusConflict, SyncStatusError} )
     => ( /\ apiRet' = "err"
          /\ pc'[ApiThread] = "none"
          /\ smCtx \notin cancelled
          /\ UNCHANGED <<currentStatus, syncHistory, currentConflicts,
                         conflictStrategy, smCtx, cancelled>> )]_vars

\* C10: when the re-check after the pull finds conflicted files, the pass
\* fails (it returns an error) and PushChanges is not invoked.
C10_RecheckFailsPass ==
  \A c \in FairCallers :
    FoundConflicts(c, "afterDc2")
      ~> ( /\ pc[c] = "done"
           /\ errChan[c] = "err"
           /\ \A i \in 1..Len(ops[c]) : ops[c][i] # "PushChanges" )

\* C11: when the status check, the stage, the commit, the pull (other than by
\* a merge conflict), the automatic resolution or the push of a pass fails,
\* the pass takes its error branch, which sets currentStatus to Error and
\* ends the pass with the error; the TriggerManualSync call of that pass
\* returns an error to its caller, by whichever branch of its select it
\* returns; and the pass invokes no further VCS operation.
C11_FailureHalts ==
  [][\A c \in Callers :
       /\ (ops'[c] # ops[c] /\ opRes'[c] = "err") => pc'[c] \in FailLabels
       /\ (pc[c] = "afterRs" /\ loc[c].rsErr /\ pc'[c] # pc[c])
            => pc'[c] \in FailLabels
       /\ (pc[c] \in FailLabels /\ pc'[c] # pc[c])
            => /\ currentStatus' = SyncStatusError
               /\ pc'[c] = "done"
               /\ errChan'[c] = "err"
       /\ (pc[c] \in FailLabels \cup {"done"} /\ pc'[c] # "start")
            => ops'[c] = ops[c]
       /\ (callSt[c] # "returned" /\ callSt'[c] = "returned" /\ errChan[c] = "err")
            => callRes'[c] \in {"err", "cancelled"}]_vars

\* C12: while automatic sync runs, a tick whose pass fails, by an error or by
\* a conflict, does not stop the loop: the failed call returns to the loop,
\* which waits for the next tick (or for the stop channel).
C12_LoopSurvivesFailure ==
  \A l \in Loops :
    (loopRunning[l] /\ (pc[l] \in FailLabels \/ FoundConflicts(l, "afterDc1")))
      ~> ( /\ loopRunning[l]
           /\ callSt[l] = "returned" )

\* C13: StartAutomaticSync returns success; called while automatic sync is
\* active it starts no loop and leaves the stop channel and the intervals as
\* they are; on a first start it starts one loop, whose interval is the
\* argument, or 300 seconds when the argument is not positive.
C13_StartIdempotent ==
  [][ /\ ( /\ facadeCalls' = facadeCalls + 1
           /\ facadeOp' = "StartAutomaticSync"
           /\ syncActive )
         => /\ startPc' = "none"
            /\ startRet' = "ok"
            /\ UNCHANGED <<syncActive, stopSync, closedChans, loopRunning,
                           loopChan, loopInterval>>
      /\ (startPc = "saActive" /\ startPc' = "none")
         => /\ startRet' = "ok"
            /\ syncActive'
            /\ \E l \in Loops :
                 /\ ~loopRunning[l]
                 /\ loopRunning' = [loopRunning EXCEPT ![l] = TRUE]
                 /\ loopInterval'[l] = IF startArg <= 0 THEN 300
                                       ELSE startArg ]_vars

\* C13 witness: a loop started with 60 seconds is running and a second
\* StartAutomaticSync(0) has returned
C13_Witness ==
  /\ facadeOp = "StartAutomaticSync"
  /\ startArg = 0
  /\ startPc = "none"
  /\ startRet = "ok"
  /\ syncActive
  /\ stopSync = 1
  /\ loopRunning = [l \in Loops |-> l = "auto"]
  /\ loopInterval["auto"] = 60

\* a step of the StopAutomaticSync call
StopStep ==
  \/ stopPc' # stopPc
  \/ facadeCalls' = facadeCalls + 1 /\ facadeOp' = "StopAutomaticSync"

\* C14: in a sequence of calls, each made after the one before has returned,
\* StopAutomaticSync called while automatic sync is not active changes
\* nothing, no call closes a closed channel, and when StopAutomaticSync
\* returns IsAutoSyncActive is false.
C14_StopIdempotent ==
  [][ /\ (StopStep /\ stopPc = "none" /\ ~syncActive)
         => /\ stopPc' = "none"
            /\ stopRet' = "ok"
            /\ UNCHANGED <<autoVars, loopChan, repoVars, smVars,
                           conflictStrategy, currentConflicts>>
      /\ (StopStep /\ stopPc' = "none" /\ ~overlap') => (stopRet' = "ok" /\ ~syncActive')
      /\ ~overlap' => ~panicked' ]_vars

\* C14 witness: StopAutomaticSync has returned a second time after the only
\* loop was stopped, every call made after the one before had returned
C14_Witness ==
  /\ facadeOp = "StopAutomaticSync"
  /\ facadeCalls = 4
  /\ stopPc = "none"
  /\ stopRet = "ok"
  /\ ~overlap
  /\ ~syncActive
  /\ stopSync = 1
  /\ closedChans = {1}
  /\ ~panicked

\* a SetConflictResolutionStrategy / ResolveConflictsWithStrategy call of the
\* facade is made in this step
ApiStep(op) == apiCalls' = apiCalls + 1 /\ apiOp' = op

\* C15: SetConflictResolutionStrategy with a name outside manual, ours,
\* theirs, both returns an error and leaves conflictStrategy as it was; with
\* one of the four names it returns success and conflictStrategy is that
\* value.
C15_SetStrategyValidated ==
  [][(Ready /\ ApiStep("SetConflictResolutionStrategy"))
     => IF apiArg' \in {"manual", "ours", "theirs", "both"}
        THEN apiRet' = "ok" /\ conflictStrategy' = apiArg'
        ELSE apiRet' = "err" /\ conflictStrategy' = conflictStrategy]_vars

\* C15 witness: an unknown name has been refused after the strategy was set
\* to a value other than the initial one
C15_Witness ==
  /\ apiOp = "SetConflictResolutionStrategy"
  /\ apiArg = "bogus"
  /\ apiRet = "err"
  /\ conflictStrategy = ConflictStrategyTheirs

\* C16: ResolveConflictsWithStrategy called with manual or with a name other
\* than ours, theirs, both returns an error, invokes no VCS operation and
\* leaves currentStatus, the history, currentConflicts, conflictStrategy and
\* lastSyncTime as they were.
C16_ResolveInvalidRefused ==
  [][(Ready /\ ApiStep("ResolveConflictsWithStrategy")
        /\ apiArg' \notin {"ours", "theirs", "both"})
     => /\ apiRet' = "err"
        /\ ops'[ApiThread] = <<>>
        /\ pc'[ApiThread] = "none"
        /\ UNCHANGED <<currentStatus, syncHistory, currentConflicts,
                       conflictStrategy, lastSyncTime>>]_vars

\* C16 witness: a call with manual has been refused while a pass is running
C16_Witness ==
  /\ apiOp = "ResolveConflictsWithStrategy"
  /\ apiArg = "manual"
  /\ apiRet = "err"
  /\ pc[ApiThread] = "none"
  /\ \E c \in Callers : InFlight(c)

\* one of the seven sync operations of the facade is called in this step
SyncOpStep ==
  \/ apiCalls' = apiCalls + 1
  \/ triggers' = triggers + 1
  \/ facadeCalls' = facadeCalls + 1 /\ facadeOp' = "StartAutomaticSync"

\* C17: while the repository is not connected or there is no SyncManager, a
\* call of TriggerManualSync, StartAutomaticSync, DetectConflicts,
\* GetConflictDetails, AbortSyncWithConflicts, SetConflictResolutionStrategy
\* or ResolveConflictsWithStrategy returns an error at once: no pass and no
\* loop is started, no VCS operation is invoked, and the manager and the
\* facade are as before.
C17_NotReadyRefused ==
  [][(~Ready /\ SyncOpStep)
     => /\ apiCalls' = apiCalls + 1
        /\ apiOp' \in FacadeOps
        /\ apiRet' = "err"
        /\ UNCHANGED <<smVars, conflictStrategy, currentConflicts, mu, ctxVars,
                       pc, loc, ops, callSt, triggers, ticks, repoVars, autoVars,
                       loopChan>>]_vars

\* C17 witness: StartAutomaticSync has been refused on a service whose
\* repository is connected but whose SyncManager was never made
C17_Witness ==
  /\ isConnected
  /\ syncManager = 0
  /\ apiOp = "StartAutomaticSync"
  /\ apiRet = "err"
  /\ ~syncActive
  /\ \A l \in Loops : ~loopRunning[l]

\* a step of the ConnectRepository call
ConnectStep ==
  \/ connPc' # connPc
  \/ facadeCalls' = facadeCalls + 1 /\ facadeOp' = "ConnectRepository"

\* C18: ConnectRepository with an empty URL or an empty path returns an error
\* and touches nothing: repoURL, localRepoPath, isConnected, the SyncManager,
\* syncActive, the stop channel and the running loops are as before.
C18_ConnectEmptyArgsNoOp ==
  [][(ConnectStep /\ (connArg'.url = "" \/ connArg'.path = ""))
     => /\ connPc' = "none" => connRet' = "err"
        /\ UNCHANGED <<repoVars, syncActive, stopSync, closedChans, loopRunning,
                       smVars, conflictStrategy, currentConflicts>>]_vars

\* C19: currentStatus is always one of the ten values, and it becomes
\* Resolving only from Conflict.
C19_ResolvingOnlyFromConflict ==
  /\ [](currentStatus \in SyncStatus)
  /\ [][(currentStatus' = SyncStatusResolving /\ currentStatus # SyncStatusResolving)
        => currentStatus = SyncStatusConflict]_vars

\* C20: a GetSyncStatus call of a polling reader always returns a status
\* string, whatever passes, DetectConflicts and AbortSync calls run beside it.
C20_GetSyncStatusReturns ==
  (apiOp = "GetSyncStatus" /\ pc[ApiThread] = "gsLock")
    ~> (apiOp = "GetSyncStatus" /\ pc[ApiThread] = "none" /\ apiRet = "ok")

\* C21: every TriggerManualSync call eventually returns, whatever the outcome
\* of its pass (success, error, conflict under any strategy), every VCS
\* operation being a step that ends.
C21_TriggerReturns ==
  \A c \in FairCallers : (callSt[c] = "called") ~> (callSt[c] = "returned")

\* the statuses of the history entries, oldest first
Statuses(h) == [i \in 1..Len(h) |-> h[i].status]

\* pass c has invoked the VCS operation op
Has(c, op) == \E i \in 1..Len(ops[c]) : ops[c][i] = op

\* the conflict scans pass c has made: the re-check of line 276, and before
\* it the scan of line 245 when the pull failed with a merge conflict
Scans(c) == Cardinality({i \in 1..Len(ops[c]) : ops[c][i] = "DetectConflicts"})

\* the only call made on the manager is the TriggerManualSync call of c, and
\* its pass has ended with nil after a pull that succeeded
AlonePassSucceeded(c) ==
  /\ triggers = 1
  /\ ticks = 0
  /\ apiCalls = 0
  /\ pc[c] = "done"
  /\ errChan[c] = "nil"
  /\ Scans(c) = 1

\* C22: a pass on a clean working copy with an up-to-date remote and every
\* VCS operation succeeding moves the status through Checking, Pulling,
\* Pushing, Success in that order without Staging or Committing, appends
\* exactly one history entry with status Success, and updates lastSyncTime,
\* to a time read while that entry was made.
C22_CleanPass ==
  \A c \in Callers :
    (AlonePassSucceeded(c) /\ ~Has(c, "StageChanges"))
      => /\ ops[c] = << "HasLocalChanges", "PullChanges", "DetectConflicts",
                         "PushChanges" >>
         /\ Statuses(syncHistory) =
              << SyncStatusChecking, SyncStatusPulling, SyncStatusPushing,
                 SyncStatusSuccess >>
         /\ currentStatus = SyncStatusSuccess
         /\ lastSyncTime > syncHistory[Len(syncHistory) - 1].timestamp
         /\ lastSyncTime <= syncHistory[Len(syncHistory)].timestamp
         /\ lastSyncTime # lstAtStart[c]

\* C22 witness: the clean pass has ended and its caller has returned success
C22_Witness ==
  /\ AlonePassSucceeded("manual")
  /\ ~Has("manual", "StageChanges")
  /\ callSt["manual"] = "returned"
  /\ callRes["manual"] = "ok"
  /\ Len(syncHistory) = 4

\* C23: a pass stages and commits if and only if its status check reported
\* local changes; with local changes, an unchanged remote and every VCS
\* operation succeeding it stages, commits, pulls, pushes and ends with
\* currentStatus Success.
C23_StageCommitIffChanges ==
  /\ [][\A c \in Callers :
          /\ (pc[c] = "check" /\ Len(ops'[c]) > Len(ops[c]))
               => /\ pc'[c] = "updStaging" <=> opRes'[c] = "dirty"
                  /\ pc'[c] = "updPulling" <=> opRes'[c] = "clean"
          /\ (pc'[c] = "updStaging" /\ pc[c] # "updStaging")
               => (pc[c] = "check" /\ opRes'[c] = "dirty")
          /\ (pc'[c] = "stageCtx" /\ pc[c] # "stageCtx") => pc[c] = "updStaging"
          /\ (pc'[c] = "stage" /\ pc[c] # "stage") => pc[c] = "stageCtx"
          /\ (pc'[c] = "updCommit" /\ pc[c] # "updCommit")
               => (pc[c] = "stage" /\ opRes'[c] = "ok")
          /\ (pc'[c] = "commitCtx" /\ pc[c] # "commitCtx") => pc[c] = "updCommit"
          /\ (pc'[c] = "commit" /\ pc[c] # "commit") => pc[c] = "commitCtx"
          /\ (pc[c] \in PassLabels /\ Len(ops'[c]) > Len(ops[c]))
               => /\ ops'[c][Len(ops'[c])] = "StageChanges" <=> pc[c] = "stage"
                  /\ ops'[c][Len(ops'[c])] = "CommitChanges" <=> pc[c] = "commit"]_vars
  /\ [](\A c \in Callers :
          (AlonePassSucceeded(c) /\ Has(c, "StageChanges"))
            => /\ ops[c] = << "HasLocalChanges", "StageChanges", "CommitChanges",
                               "PullChanges", "DetectConflicts", "PushChanges" >>
               /\ Statuses(syncHistory) =
                    << SyncStatusChecking, SyncStatusStaging, SyncStatusCommit,
                       SyncStatusPulling, SyncStatusPushing, SyncStatusSuccess >>
               /\ currentStatus = SyncStatusSuccess)

\* C23 witness: the pass on a changed working copy has ended in Success
C23_Witness ==
  /\ AlonePassSucceeded("manual")
  /\ Has("manual", "StageChanges")
  /\ Has("manual", "CommitChanges")
  /\ callRes["manual"] = "ok"
  /\ currentStatus = SyncStatusSuccess

C25_ExclusiveWorkingCopy ==
  [][\A t \in Threads :
       Len(ops'[t]) > Len(ops[t]) => \A c \in Callers \ {t} : ~InFlight(c)]_vars

\* C26: conflictStrategy is manual in a new manager and is changed only by
\* the setter: every other call, ResolveConflictWithStrategy with another
\* strategy included, leaves it as it is.
C26_StrategyOnlyBySetter ==
  /\ conflictStrategy = ConflictStrategyManual
  /\ [][conflictStrategy' # conflictStrategy
        => /\ ApiStep("SetConflictResolutionStrategy")
           /\ apiRet' = "ok"
           /\ conflictStrategy' = apiArg']_vars

\* C26 witness: a resolution with ours has succeeded while the stored
\* strategy is theirs
C26_Witness ==
  /\ apiOp = "ResolveConflictsWithStrategy"
  /\ apiArg = "ours"
  /\ apiRet = "ok"
  /\ conflictStrategy = ConflictStrategyTheirs

\* a VCS operation invoked by t in this step has failed
StepFails(t) ==
  /\ Len(ops'[t]) > Len(ops[t])
  /\ CASE pc[t] = "dcScan" -> loc'[t].detectErr
       [] pc[t] \in ResolveLabels ->
            /\ pc'[t] \in DOMAIN RsEnding
            /\ RsEnding[pc'[t]].status = SyncStatusError
       [] OTHER -> t \in Callers /\ opRes'[t] \in {"err", "conflict"}

\* the Op of the error a failure of op is classified as
ErrorOf(op) ==
  CASE op \in DOMAIN ClassifiedOp -> ClassifiedOp[op]
    [] op = "ResolveConflictsWithStrategy" -> "resolve_conflicts"
    [] OTHER -> op

\* C27: after a VCS operation fails, the error of that failure is the last
\* error, and GetErrorDetails returns it until a later failure overwrites it;
\* successful operations and status queries do not change it.
C27_LastErrorRetained ==
  [][/\ \A t \in Threads :
          StepFails(t) => /\ lastError' = ErrorOf(ops'[t][Len(ops'[t])])
                          /\ GetErrorDetails' = lastError'
     /\ lastError' # lastError => \E t \in Threads : StepFails(t)]_vars

\* C28: once the cancellation signal of a pass has fired, the pass starts no
\* further VCS operation of any kind.
C28_NoOperationAfterCancel ==
  [][\A c \in Callers :
       (InFlight(c) /\ CtxErr(c)) => Len(ops'[c]) <= Len(ops[c])]_vars

\* C29: a pass that starts after AbortSync or CancelSync has cancelled the
\* manager's context starts under a fresh context: the cancellation does not
\* reach it.
C29_FreshContextForNewPass ==
  [][\A c \in Callers :
       (callSt[c] # "called" /\ callSt'[c] = "called")
         => callCtx'[c] \notin cancelled']_vars

\* C30: when StopAutomaticSync is called while a pass of the timer loop is in
\* flight, the cancellation signal of that pass fires: it has fired when the
\* call returns.
C30_StopCancelsPass ==
  [][(stopPc = "stClear" /\ stopPc' = "none")
     => \A l \in Loops : InFlight(l) => callCtx[l] \in cancelled']_vars

\* C31: the mutex is never held across a VCS I/O call, and currentConflicts
\* is written only by a thread that holds it.
C31_MutexDiscipline ==
  [][/\ \A t \in Threads : Len(ops'[t]) > Len(ops[t]) => mu # t
     /\ (currentConflicts' # currentConflicts) => mu \in Threads]_vars

\* C34: no call waits for the mutex it holds itself: a thread that has taken
\* sm.mu, in DetectConflicts or in AbortSync, releases it.
C34_NoSelfDeadlock ==
  \A t \in Threads : (mu = t) ~> (mu # t)

\* C35: whenever no pass and no conflict resolution is executing,
\* currentStatus is Idle, Success, Error or Conflict.
C35_RestingStatus ==
  ( /\ \A c \in Callers : ~InFlight(c)
    /\ pc[ApiThread] = "none" )
    => currentStatus \in { SyncStatusIdle, SyncStatusSuccess, SyncStatusError,
                           SyncStatusConflict }

\* C36: while a pass is in flight, the status is set to Success, and a
\* Success entry appended, only by the updateStatus call of that pass that
\* follows the successful return of its push.
C36_SuccessOnlyAfterPush ==
  [][(clock' # clock /\ currentStatus' = SyncStatusSuccess)
     => \A c \in Callers :
          InFlight(c) => (pc[c] = "updSuccess" /\ opRes[c] = "ok" /\ pc'[c] = "done")]_vars

\* C37: a pass invokes PushChanges only if its PullChanges returned success,
\* or reported a merge conflict that ResolveConflictWithStrategy then
\* resolved successfully.
C37_PushOnlyAfterPull ==
  [][\A c \in Callers :
       (pc[c] = "push" /\ Len(ops'[c]) > Len(ops[c]))
         => \/ opRes[c] = "ok"
            \/ /\ opRes[c] = "conflict"
               /\ loc[c].rsArg \in {"ours", "theirs", "both"}
               /\ ~loc[c].rsErr]_vars

\* C38: a loop started by StartAutomaticSync ends after the next
\* StopAutomaticSync, also when StartAutomaticSync is called again before the
\* loop has seen the stop: at most one loop has entered its select on a stop
\* channel that is not closed.
C38_AtMostOneLoop ==
  Cardinality({l \in Loops : /\ loopRunning[l]
                              /\ loopChan[l] # NotInSelect
                              /\ loopChan[l] \notin closedChans}) <= 1

\* C39: a ConnectRepository call that is made on a connected service and
\* fails after its input checks, no other call of the facade running
\* meanwhile, leaves the established connection as it was when the call was
\* made: repoURL, localRepoPath, isConnected, the SyncManager and the
\* automatic-sync activity.
C39_ConnectFailureKeepsConnection ==
  [][( /\ connPc \in {"crCred", "crOpen", "crGit"}
       /\ connRet' = "err"
       /\ connPre.isConnected
       /\ facadeCalls = connPre.calls
       /\ ~overlap )
     => /\ repoURL' = connPre.repoURL
        /\ localRepoPath' = connPre.localRepoPath
        /\ isConnected' = connPre.isConnected
        /\ syncManager' = connPre.syncManager
        /\ syncActive' = connPre.syncActive]_vars

\* C40: after a successful ConnectRepository has replaced the SyncManager, no
\* pass that was started on the previous manager invokes a VCS operation.
C40_NoPassOfReplacedManager ==
  [][\A c \in Callers :
       (InFlight(c) /\ ~Cur(c)) => Len(ops'[c]) <= Len(ops[c])]_vars

\* the tests of classifyError in their order, and the error each one sets
KindPatterns == << AuthPatterns, NetworkPatterns, ConflictPatterns,
                   NotFoundPatterns, LocalPatterns >>
KindError == << ErrAuthenticationFailed, ErrNetworkIssue, ErrMergeConflict,
                ErrRemoteNotFound, ErrLocalChanges >>
MatchingKinds(err) == {k \in 1..5 : ContainsAny(err, KindPatterns[k])}

\* C32: classifyError gives every non-nil failure exactly one kind and the
\* name of its operation: the first, in the order authentication, network,
\* conflict, remote-not-found, local-changes, whose pattern the text has, and
\* Unknown, with the original error unchanged, when it has none.
C32_ClassifyFirstMatch ==
  /\ vcsErr.err = NoError => gitErr = NilGitError
  /\ gitErr # NilGitError =>
       /\ gitErr.Op = vcsErr.op
       /\ lastError = vcsErr.op
       /\ LET K == MatchingKinds(vcsErr.err)
          IN IF K = {}
             THEN /\ gitErr.Err = vcsErr.err
                  /\ \A k \in 1..5 : gitErr.Err # KindError[k]
             ELSE \E k \in K : /\ \A j \in K : k <= j
                                /\ gitErr.Err = KindError[k]

\* C32 witness: a failure whose text has the patterns of several kinds has
\* been classified, and so has one whose text has none
C32_Witness ==
  /\ gitErr # NilGitError
  /\ Cardinality(MatchingKinds(vcsErr.err)) >= 2
  /\ 3 \in MatchingKinds(vcsErr.err)
  /\ gitErr.Err # ErrMergeConflict

\* C33: a history entry never changes once it is appended, and leaves the
\* history only from its front when a new entry overflows the capacity,
\* whatever is done to currentConflicts or to a slice GetSyncHistory returned.
C33_EntriesImmutable ==
  [][\/ syncHistory' = syncHistory
     \/ /\ Len(syncHistory') >= 1
        /\ LET d == Len(syncHistory) + 1 - Len(syncHistory')
           IN /\ d \in {0, 1}
              /\ d = 1 => Len(syncHistory) = maxHistorySize
              /\ \A i \in 1..(Len(syncHistory') - 1) :
                   syncHistory'[i] = syncHistory[i + d]]_vars

\* C33 witness: the caller has changed an entry of the slice it was given,
\* and the stored entry of that timestamp is not the changed one
C33_Witness ==
  \E i \in 1..Len(histCopy), j \in 1..Len(syncHistory) :
    /\ histCopy[i].timestamp = syncHistory[j].timestamp
    /\ histCopy[i] # syncHistory[j]
    /\ histCopy[i].message = "edited"
====
